---- MODULE Spec2Model ----
(***************************************************************************)
(* cache-buster: the scanning and eviction engine.                         *)
(*                                                                         *)
(* The module models cache.CalculateSize and cache.ListFiles (one walker    *)
(* per root, a shared atomic total and shared mutex-protected slices),     *)
(* cache.Trim (sort, age phase, size                                       *)
(* phase, deletion loop polling the context) and the provider Clean calls  *)
(* built on them (FileProvider and CommandProvider, smart and full mode).  *)
(* DockerProvider.Clean with its availability probe and the version       *)
(* pruning of JetBrainsProvider.findRemovableDirs are modelled as well,    *)
(* and so are ClassifyError on wrapped errors, two calls of Trim racing on *)
(* one root, the bubbletea model of the interactive command, and the      *)
(* clean command with its confirmation prompt.                             *)
(***************************************************************************)
EXTENDS Integers, Sequences, FiniteSets, TLC

\* ------------------------------------------------------------------ bounds
MaxFiles == 3
MaxTime == 2
MaxLimit == 3
\* how many direct calls of ClassifyError a run makes
MaxCalls == 2
\* how many providers the configuration enables at most
MaxProviders == 2

\* ------------------------------------------------------- program constants
\* trimBufferFactor = 0.9, kept as the fraction TrimBufferNum/TrimBufferDen
TrimBufferNum == 9
TrimBufferDen == 10

Paths == 1..MaxFiles
ModTimes == 1..MaxTime
\* file sizes in bytes: a small and a large file
FileSizes == {1, 2}
Roots == {"r1", "r2"}
\* a scan is called with one or two roots
MaxRoots == 2

\* time.Now() of the call; no file of the model is newer than the clock
Now == MaxTime

\* The directory a path lives in: odd paths under r1, even paths under r2.
RootOf(p) == IF p % 2 = 1 THEN "r1" ELSE "r2"

VARIABLES
    disk,          \* the entries on disk: path -> [Size, ModTime]
    entryType,     \* per entry: regular file, symlink or directory
    dirMode,       \* per directory: readable, listable only, or unreadable
    roots,         \* the paths argument of the scan: a list of roots
    jbDisk,        \* per base path of the JetBrains provider: the entries of the directory
    jbPaths,       \* the paths of the JetBrains provider
    docker,        \* whether the docker binary is on PATH and the daemon answers
    total,         \* CalculateSize: the shared atomic total
    firstErr,      \* the scan's firstErr: the first error a walk returned
    scanResult,    \* the ScanResult / ListResult the scan returns
    disk0,         \* the files on disk when the call started (history)
    op,            \* the call under way: Trim, a scan, or a call on a provider
    opts,          \* TrimOptions / CleanOptions with the provider's limits
    cleanCmd,      \* CommandProvider.cleanCmd
    callNo,        \* 1 for the first call of the run, 2 for the call after it
    prev,          \* what the first call returned (history)
    cancelled,     \* ctx.Done() is closed
    cancelledAt,   \* where the call was when the context was cancelled (history)
    pc,            \* position of the call
    walker,        \* per goroutine: the callbacks its walk has still to make
    files,         \* ListFiles: the shared slice the walkers append to
    warnings,      \* ListFiles: the shared warnings slice
    cutoff,        \* Trim: time.Now().Add(-opts.MaxAge)
    targetSize,    \* Trim: int64(float64(opts.MaxSize) * trimBufferFactor)
    remainingSize, \* Trim: remainingSize once the plan is made
    remaining0,    \* Trim: remainingSize after the age phase (history)
    ageMarked,     \* Trim: the entries phase 1 appended to toDelete (history)
    toDelete,      \* Trim: the marked files, in deletion order
    idx,           \* index of the next entry of the deletion loop
    output,        \* the "would delete" lines written so far
    deleteErrors,  \* the warnings collected by the call
    result,        \* the TrimResult Trim returns
    err,           \* the error Trim returns next to it
    currentSize,   \* fullClean: p.CurrentSize() at the start (sizeBefore)
    bytesDeleted,  \* FileProvider.fullClean: bytes deleted so far
    filesDeleted,  \* FileProvider.fullClean: files deleted so far
    cmdParsed,     \* CommandProvider: shellquote.Split was called (history)
    cmdStarted,    \* CommandProvider: the command was started (history)
    captured,      \* what the command wrote to stdout and stderr, and its exit (history)
    probes,        \* how many `docker ps` processes Available started (history)
    provider,      \* the provider whose Clean returned: file, command or none
    cleanResult,   \* the CleanResult a provider's Clean returns
    cleanErr,      \* the error it returns next to it
    basePathNo,    \* findRemovableDirs: the index of the base path being read
    entries,       \* findRemovableDirs: the entries of that path still to look at
    products,      \* findRemovableDirs: product -> its version directories
    unvisited,     \* findRemovableDirs: the products the range over the map has to visit
    removable,     \* findRemovableDirs: the paths marked removable
    state,         \* interactive model: Selection, Confirmation, Cleaning or Done
    providers,     \* interactive model: the provider items, by index from 0
    selected,      \* interactive model: the selected indexes
    cursor,        \* interactive model: the index under the cursor
    cleanIdx,      \* interactive model: the index of the provider being cleaned
    smartMode,     \* interactive model: smart (TRUE) or full mode
    quitting,      \* interactive model: the user asked to quit
    totalFreed,    \* interactive model: sum of BytesCleaned of the cleans without error
    width,         \* interactive model: the width of the window
    scanning,      \* the scan commands whose message has not been delivered
    cleaning,      \* the clean commands whose message has not been delivered
    quitSent,      \* a tea.Quit is on its way to the program
    running,       \* the program's event loop runs
    cleanCmds,     \* the clean commands issued so far: index and mode (history)
    cleanCalls,    \* the indexes whose provider's Clean was called (history)
    cli,           \* the clean command: its flags, standard input, position and locals
    call,          \* two concurrent Trim calls: per call its options, position and locals
    classified,    \* the direct calls of ClassifyError: arguments and value (history)
    removed,       \* the paths os.Remove removed, in order (history)
    attempted      \* the entries the deletion loop accounted or tried (history)

callVars == <<op, opts, cleanCmd>>
scanVars == <<walker, files, warnings>>
planVars == <<cutoff, targetSize, remainingSize, remaining0, ageMarked, toDelete>>
fullVars == <<currentSize, bytesDeleted, filesDeleted>>
cmdVars == <<cmdParsed, cmdStarted, captured, probes>>
cleanVars == <<provider, cleanResult, cleanErr>>
histVars == <<removed, attempted>>
runVars == <<callNo, prev, disk0, cancelledAt>>
fsVars == <<entryType, dirMode, roots, docker, jbDisk, jbPaths>>
jbVars == <<basePathNo, entries, products, unvisited, removable>>
sizeVars == <<total, firstErr, scanResult>>
errVars == <<classified>>
concVars == <<call>>
tuiVars == <<state, providers, selected, cursor, cleanIdx, smartMode, quitting, totalFreed, width,
            scanning, cleaning, quitSent, running, cleanCmds, cleanCalls>>

\* everything but the interactive model
engineVars == <<disk, fsVars, cli, errVars, concVars, jbVars, sizeVars, callVars, runVars, cancelled, pc, scanVars,
               planVars, idx, output, deleteErrors, result, err, fullVars, cmdVars, cleanVars, histVars>>

vars == <<disk, fsVars, tuiVars, cli, errVars, concVars, jbVars, sizeVars, callVars, runVars, cancelled, pc, scanVars, planVars, idx, output,
          deleteErrors, result, err, fullVars, cmdVars, cleanVars, histVars>>

\* ----------------------------------------------------------------- helpers
Front(s) == SubSeq(s, 1, Len(s) - 1)
Last(s) == s[Len(s)]
Range(s) == {s[i] : i \in 1..Len(s)}

RECURSIVE SumSize(_)
SumSize(s) == IF s = <<>> THEN 0 ELSE Head(s).Size + SumSize(Tail(s))

RECURSIVE SetToSeq(_)
\* the elements of a set of paths in lexical (ascending) order
SetToSeq(S) ==
    IF S = {} THEN <<>>
    ELSE LET m == CHOOSE x \in S : \A y \in S : x <= y
         IN <<m>> \o SetToSeq(S \ {m})

RECURSIVE PathsToInfo(_, _)
\* the entries of the files of d at the paths of the sequence ps
PathsToInfo(d, ps) ==
    IF ps = <<>> THEN <<>>
    ELSE <<[Path |-> Head(ps), Size |-> d[Head(ps)].Size, ModTime |-> d[Head(ps)].ModTime]>>
           \o PathsToInfo(d, Tail(ps))

\* FileInfo{Path, Size, ModTime} as d.Info() reports it
FileInfo(p) == [Path |-> p, Size |-> disk[p].Size, ModTime |-> disk[p].ModTime]

\* Output strings, kept structured: kind is the fixed text, n the number printed
\* in it, lines the per-file lines.
Out(kind, n, lines) == [kind |-> kind, n |-> n, lines |-> lines, suffix |-> <<>>]
NoOutput == Out("", 0, <<>>)

\* CleanResult{Output, BytesCleaned, FilesDeleted}
CleanResult(out, bytes, n) == [Output |-> out, BytesCleaned |-> bytes, FilesDeleted |-> n]
ZeroClean == CleanResult(NoOutput, 0, 0)

ZeroResult == [Output |-> NoOutput, Errors |-> <<>>, DeletedCount |-> 0, FreedBytes |-> 0]

\* ----------------------------------------------------------- error classifier
\* An error value is the chain Unwrap walks, outermost first: <<>> is the nil
\* error, <<"EBUSY">> a bare errno, <<"PathError", "EACCES">> the *fs.PathError
\* a failed system call returns.
PathError(errno) == IF errno = "nil" THEN <<>> ELSE <<"PathError", errno>>

\* syscall.Errno.Is: the sentinel errors an errno stands for
ErrnoIs(e, target) ==
    CASE target = "ErrPermission" -> e \in {"EACCES", "EPERM"}
      [] target = "ErrNotExist" -> e = "ENOENT"
      [] OTHER -> FALSE

\* mutant: the error is compared without unwrapping it
IsWithoutUnwrap(e, target) == e # <<>> /\ (e[1] = target \/ ErrnoIs(e[1], target))

\* errors.Is(err, target): some error of the chain equals the target or says,
\* by its Is method, that it stands for it
Is(e, target) == \E i \in 1..Len(e) : e[i] = target \/ ErrnoIs(e[i], target)

\* Reason constants
ReasonPermissionDenied == "permission denied"
ReasonFileLocked == "file locked"
ReasonNotFound == "not found"
ReasonUnknown == "access error"

\* ClassifyError(path, err); a nil error leaves Err unset
ClassifyError(path, e) ==
    IF e = <<>>
    THEN [Path |-> path, Reason |-> ReasonUnknown, Err |-> <<>>]
    ELSE [Path |-> path,
          Reason |-> CASE Is(e, "ErrPermission") -> ReasonPermissionDenied
                       [] Is(e, "ErrNotExist") -> ReasonNotFound
                       [] Is(e, "EBUSY") -> ReasonFileLocked
                       [] Is(e, "ETXTBSY") -> ReasonFileLocked
                       [] OTHER -> ReasonUnknown,
          Err |-> e]

\* AccessError.Unwrap
Unwrap(a) == a.Err

\* ------------------------------------------------------------------ the walk
\* Paths are numbers: the entries of the directories are 1..MaxFiles, the
\* directories themselves are below zero.
DirPath(r) == CASE r = "r1" -> 0 - 1 [] r = "r2" -> 0 - 2 [] r = "top" -> 0 - 3 [] OTHER -> 0 - 4

\* one call of the walk callback: on directory `at` itself (entry 0) or on an
\* entry of it
Visit(at, entry) == [at |-> at, entry |-> entry]
VisitPath(v) == IF v.entry = 0 THEN DirPath(v.at) ELSE v.entry

\* os.ReadDir(r): the entries of directory r of d, in lexical order
DirEntries(d, r) == SetToSeq({p \in DOMAIN d : RootOf(p) = r})

\* walkDir(r): the callback on the directory, then, unless ReadDir failed, on
\* each of its entries
WalkDirOf(d, r) ==
    <<Visit(r, 0)>>
      \o (IF dirMode[r] = "noread" THEN <<>>
          ELSE [i \in 1..Len(DirEntries(d, r)) |-> Visit(r, DirEntries(d, r)[i])])

\* filepath.WalkDir(root, fn): the callbacks it makes, in order. "top" is the
\* parent of r1 and r2; any other root does not exist and gets the one callback
\* that carries the Lstat error.
WalkDir(d, root) ==
    CASE root = "top" -> <<Visit("top", 0)>> \o WalkDirOf(d, "r1") \o WalkDirOf(d, "r2")
      [] root \in Roots -> WalkDirOf(d, root)
      [] OTHER -> <<Visit(root, 0)>>

\* mutant: the Lstat of a missing root fails with a permission error
WalkErrMissingIsDenied(v) ==
    IF v.entry # 0
    THEN IF entryType[v.entry] = "dir" /\ dirMode[v.at] = "nostat" THEN "EACCES" ELSE "nil"
    ELSE IF v.at \notin (Roots \cup {"top"}) THEN "EACCES"
    ELSE IF v.at \in Roots /\ dirMode[v.at] = "noread" THEN "EACCES"
    ELSE "nil"

\* the err argument of the callback: the Lstat error of a missing root, or the
\* ReadDir error of a directory (the callback made before ReadDir returns at
\* the IsDir test and is folded into this one). A subdirectory of a directory
\* without search permission cannot be opened.
WalkErr(v) ==
    IF v.entry # 0
    THEN IF entryType[v.entry] = "dir" /\ dirMode[v.at] = "nostat" THEN "EACCES" ELSE "nil"
    ELSE IF v.at \notin (Roots \cup {"top"}) THEN "ENOENT"
    ELSE IF v.at \in Roots /\ dirMode[v.at] = "noread" THEN "EACCES"
    ELSE "nil"

\* mutant: d.Info() never fails
InfoErrNone(v) == "nil"

\* the error of d.Info(): the entries of a directory without search permission
\* are listed but cannot be stat'ed
InfoErr(v) == IF dirMode[v.at] = "nostat" THEN "EACCES" ELSE "nil"

\* mutant: the callback takes a symlink for the file it points to
CallbackFollowsSymlinks(v) ==
    IF WalkErr(v) # "nil"
    THEN IF WalkErr(v) # "ENOENT" THEN [do |-> "warn", e |-> WalkErr(v)]
         ELSE [do |-> "skip", e |-> "nil"]
    ELSE IF v.entry = 0 \/ entryType[v.entry] = "dir" THEN [do |-> "skip", e |-> "nil"]
    ELSE IF InfoErr(v) # "nil" THEN [do |-> "warn", e |-> InfoErr(v)]
    ELSE [do |-> "file", e |-> "nil"]

\* The walk callback of CalculateSize and of ListFiles up to its last step:
\* a walk error other than ErrNotExist is a warning, a directory or a symlink
\* is skipped, a failed d.Info() is a warning, and a regular file is taken.
\* Every path returns nil, so the walk goes on.
Callback(v) ==
    IF WalkErr(v) # "nil"
    THEN IF WalkErr(v) # "ENOENT" THEN [do |-> "warn", e |-> WalkErr(v)]
         ELSE [do |-> "skip", e |-> "nil"]
    ELSE IF v.entry = 0 \/ entryType[v.entry] \in {"dir", "symlink"} THEN [do |-> "skip", e |-> "nil"]
    ELSE IF InfoErr(v) # "nil" THEN [do |-> "warn", e |-> InfoErr(v)]
    ELSE [do |-> "file", e |-> "nil"]

\* mutant: the callback returns the error of d.Info()
CallbackReturnsInfoErr(v) ==
    IF WalkErr(v) # "nil" THEN "nil"
    ELSE IF v.entry = 0 \/ entryType[v.entry] \in {"dir", "symlink"} THEN "nil"
    ELSE IF InfoErr(v) # "nil" THEN InfoErr(v)
    ELSE "nil"

\* what the walk callback returns to WalkDir on each of its four paths: nil
\* after a walk error, nil for a directory or a symlink, nil after a failed
\* d.Info(), nil after a regular file
CallbackReturn(v) ==
    IF WalkErr(v) # "nil" THEN "nil"
    ELSE IF v.entry = 0 \/ entryType[v.entry] \in {"dir", "symlink"} THEN "nil"
    ELSE IF InfoErr(v) # "nil" THEN "nil"
    ELSE "nil"

\* filepath.WalkDir after a callback: it goes on to the next visit, or stops
\* and returns the error the callback returned
WalkGoesOn(vs) == IF CallbackReturn(Head(vs)) = "nil" THEN Tail(vs) ELSE <<>>

\* firstErr.CompareAndSwap(nil, err) for the error a walk returned
FirstErrAfter(vs) ==
    IF firstErr = "nil" /\ CallbackReturn(Head(vs)) # "nil"
    THEN CallbackReturn(Head(vs)) ELSE firstErr

RECURSIVE CountedSize(_, _)
\* the bytes one walk over the visits vs adds to the total
CountedSize(d, vs) ==
    IF vs = <<>> THEN 0
    ELSE (IF Callback(Head(vs)).do = "file" /\ Head(vs).entry \in DOMAIN d
          THEN d[Head(vs).entry].Size ELSE 0) + CountedSize(d, Tail(vs))

RECURSIVE SizeOfRoots(_, _)
SizeOfRoots(d, rs) ==
    IF rs = <<>> THEN 0 ELSE CountedSize(d, WalkDir(d, Head(rs))) + SizeOfRoots(d, Tail(rs))

\* CalculateSize over the roots, as a provider's CurrentSize calls it: what the
\* walks of all roots add up to
CalculateSize(d) == SizeOfRoots(d, roots)

\* the error os.Remove fails with on a file that exists, when it fails: the
\* directory r1 may be read-only, a file of r2 may be busy
RemoveErrno(p) == IF RootOf(p) = "r1" THEN "EACCES" ELSE "EBUSY"

\* ------------------------------------------------------------------- Trim
\* mutant: the comparison of a newest-first sort
NewerFirst(a, b) == a.ModTime > b.ModTime

\* files[i].ModTime.Before(files[j].ModTime)
Less(a, b) == a.ModTime < b.ModTime

RECURSIVE InsertSorted(_, _)
\* one pass of insertion sort: f moves left while it is Less than its neighbour
InsertSorted(s, f) ==
    IF s = <<>> THEN <<f>>
    ELSE IF Less(f, Last(s)) THEN Append(InsertSorted(Front(s), f), Last(s))
    ELSE Append(s, f)

\* mutant: the files are left in the order the walkers appended them
NoSort(s) == s

RECURSIVE SortByModTime(_)
\* sort.Slice(files, ...): slices of fewer than 12 elements are insertion-sorted
SortByModTime(s) ==
    IF s = <<>> THEN <<>> ELSE InsertSorted(SortByModTime(Front(s)), Last(s))

\* cutoff = time.Now().Add(-opts.MaxAge)
Cutoff(maxAge) == Now - maxAge

\* mutant: the target without the 10% headroom
TargetSizeNoBuffer(maxSize) == maxSize

\* targetSize = int64(float64(opts.MaxSize) * trimBufferFactor); the product is
\* exact to well below one unit for every size of the model
TargetSize(maxSize) == (maxSize * TrimBufferNum) \div TrimBufferDen

\* mutant: a file modified exactly at the cutoff counts as old
IsOldOrAtCutoff(f, c) == f.ModTime <= c

\* f.ModTime.Before(cutoff)
IsOld(f, c) == f.ModTime < c

\* Phase 1: the files older than MaxAge, in sorted order
AgePhase(sorted, c) == SelectSeq(sorted, LAMBDA f : IsOld(f, c))

\* the files phase 2 walks: those phase 1 left
Remaining(sorted, c) == SelectSeq(sorted, LAMBDA f : ~IsOld(f, c))

\* mutant: the size phase marks one file and stops
SizePhaseOneFile(rem, remSize, target) ==
    IF rem = <<>> \/ remSize <= target THEN <<>> ELSE <<Head(rem)>>

\* mutant: the size phase marks the newest remaining file
SizePhaseNewest(rem, remSize, target) ==
    IF rem = <<>> \/ remSize <= target THEN <<>> ELSE <<Last(rem)>>

RECURSIVE SizePhase(_, _, _)
\* Phase 2 loop: mark the oldest remaining files until remainingSize <= targetSize
SizePhase(rem, remSize, target) ==
    IF rem = <<>> \/ remSize <= target THEN <<>>
    ELSE <<Head(rem)>> \o SizePhase(Tail(rem), remSize - Head(rem).Size, target)

\* toDelete as built by phases 1 and 2
TrimPlan(sorted, c, target) ==
    LET rem == Remaining(sorted, c)
    IN AgePhase(sorted, c)
         \o (IF SumSize(rem) > target THEN SizePhase(rem, SumSize(rem), target) ELSE <<>>)

\* ------------------------------------------------------------------ actions
\* where a call goes when Trim returns: to its caller, or back into smartClean
TrimExit == IF op = "SmartClean" THEN "trimmed" ELSE "done"

\* CalculateSize / ListFiles: one goroutine per element of paths is started;
\* each will make the callbacks of its own walk.
StartWalkers == [i \in 1..Len(roots) |-> WalkDir(disk, roots[i])]

\* Trim (called directly or by a provider's smartClean), or a caller of the
\* scanner, calls ListFiles
ListFilesStart ==
    /\ pc = "start"
    /\ op \in {"Trim", "SmartClean", "ListFiles"}
    /\ walker' = StartWalkers
    /\ pc' = "walk"
    /\ UNCHANGED <<disk, fsVars, tuiVars, cli, errVars, concVars, jbVars, sizeVars, callVars, runVars, cancelled, files, warnings,
                   planVars, idx, output, deleteErrors, result, err, fullVars, cmdVars,
                   cleanVars, histVars>>

\* the calls that are a size scan: cache.CalculateSize itself, and CurrentSize of
\* the Docker provider, which is BaseProvider.CurrentSize
SizeOps == {"CalculateSize", "DockerCurrentSize"}

\* a caller of the scanner, or CurrentSize, calls CalculateSize
CalculateSizeStart ==
    /\ pc = "start"
    /\ op \in SizeOps
    /\ walker' = StartWalkers
    /\ pc' = "walk"
    /\ UNCHANGED <<disk, fsVars, tuiVars, cli, errVars, concVars, jbVars, sizeVars, callVars, runVars, cancelled, files, warnings,
                   planVars, idx, output, deleteErrors, result, err, fullVars, cmdVars,
                   cleanVars, histVars>>

\* The walk callback of ListFiles in goroutine i: the appends are made under
\* the mutex.
WalkFile(i) ==
    /\ pc = "walk"
    /\ op \notin SizeOps
    /\ i \in DOMAIN walker
    /\ walker[i] # <<>>
    /\ LET v == Head(walker[i])
           c == Callback(v)
       IN /\ files' = IF c.do = "file" /\ v.entry \in DOMAIN disk
                      THEN Append(files, FileInfo(v.entry)) ELSE files
          /\ warnings' = IF c.do = "warn"
                         THEN Append(warnings, ClassifyError(VisitPath(v), PathError(c.e)))
                         ELSE warnings
    /\ walker' = [walker EXCEPT ![i] = WalkGoesOn(@)]
    /\ firstErr' = FirstErrAfter(walker[i])
    /\ UNCHANGED <<disk, fsVars, tuiVars, cli, errVars, concVars, jbVars, total, scanResult, callVars, runVars, cancelled, pc, planVars, idx,
                   output, deleteErrors, result, err, fullVars, cmdVars, cleanVars,
                   histVars>>

\* mutant: the total is stored, not added to
WalkSizeStores(i) ==
    /\ pc = "walk"
    /\ op \in SizeOps
    /\ i \in DOMAIN walker
    /\ walker[i] # <<>>
    /\ LET v == Head(walker[i])
           c == Callback(v)
       IN /\ total' = IF c.do = "file" /\ v.entry \in DOMAIN disk
                      THEN disk[v.entry].Size ELSE total
          /\ warnings' = IF c.do = "warn"
                         THEN Append(warnings, ClassifyError(VisitPath(v), PathError(c.e)))
                         ELSE warnings
    /\ walker' = [walker EXCEPT ![i] = Tail(@)]
    /\ UNCHANGED <<disk, fsVars, tuiVars, cli, errVars, concVars, jbVars, firstErr, scanResult, callVars, runVars, cancelled, pc,
                   files, planVars, idx, output, deleteErrors, result, err, fullVars,
                   cmdVars, cleanVars, histVars>>

\* The walk callback of CalculateSize in goroutine i: total.Add is atomic, the
\* append to warnings is made under the mutex.
WalkSize(i) ==
    /\ pc = "walk"
    /\ op \in SizeOps
    /\ i \in DOMAIN walker
    /\ walker[i] # <<>>
    /\ LET v == Head(walker[i])
           c == Callback(v)
       IN /\ total' = IF c.do = "file" /\ v.entry \in DOMAIN disk
                      THEN total + disk[v.entry].Size ELSE total
          /\ warnings' = IF c.do = "warn"
                         THEN Append(warnings, ClassifyError(VisitPath(v), PathError(c.e)))
                         ELSE warnings
    /\ walker' = [walker EXCEPT ![i] = WalkGoesOn(@)]
    /\ firstErr' = FirstErrAfter(walker[i])
    /\ UNCHANGED <<disk, fsVars, tuiVars, cli, errVars, concVars, jbVars, scanResult, callVars, runVars, cancelled, pc,
                   files, planVars, idx, output, deleteErrors, result, err, fullVars,
                   cmdVars, cleanVars, histVars>>

\* wg.Wait() has returned
WalkersDone == \A i \in DOMAIN walker : walker[i] = <<>>

\* ScanResult{Size, Warnings} / ListResult{Files, Warnings} and the error
ScanResult(size, fs, ws, e) == [Size |-> size, Files |-> fs, Warnings |-> ws, err |-> e]
NoScanResult == ScanResult(0, <<>>, <<>>, "none")

\* CalculateSize returns once wg.Wait() has
CalculateSizeReturn ==
    /\ pc = "walk"
    /\ op \in SizeOps
    /\ WalkersDone
    /\ scanResult' = ScanResult(total, <<>>, warnings, firstErr)
    /\ pc' = "done"
    /\ UNCHANGED <<disk, fsVars, tuiVars, cli, errVars, concVars, jbVars, total, firstErr, callVars, runVars, cancelled, scanVars,
                   planVars, idx, output, deleteErrors, result, err, fullVars, cmdVars,
                   cleanVars, histVars>>

\* ListFiles, called for itself, returns once wg.Wait() has
ListFilesReturn ==
    /\ pc = "walk"
    /\ op = "ListFiles"
    /\ WalkersDone
    /\ scanResult' = ScanResult(0, files, warnings, firstErr)
    /\ pc' = "done"
    /\ UNCHANGED <<disk, fsVars, tuiVars, cli, errVars, concVars, jbVars, total, firstErr, callVars, runVars, cancelled, scanVars,
                   planVars, idx, output, deleteErrors, result, err, fullVars, cmdVars,
                   cleanVars, histVars>>

\* mutant: an empty enumeration goes on to the plan and the deletion loop
TrimNoFilesGoesOn ==
    /\ pc = "walk"
    /\ op \in {"Trim", "SmartClean"}
    /\ WalkersDone
    /\ files = <<>>
    /\ deleteErrors' = warnings
    /\ idx' = 1
    /\ pc' = "delete"
    /\ UNCHANGED <<disk, fsVars, tuiVars, cli, errVars, concVars, jbVars, sizeVars, callVars, runVars, cancelled, scanVars, planVars, output,
                   result, err, fullVars, cmdVars, cleanVars, histVars>>

\* Trim: ListFiles returned an error, which Trim returns with an empty
\* result, or it found no file
TrimNoFiles ==
    /\ pc = "walk"
    /\ op \in {"Trim", "SmartClean"}
    /\ WalkersDone
    /\ firstErr # "nil" \/ files = <<>>
    /\ IF firstErr # "nil"
       THEN /\ result' = ZeroResult
            /\ err' = "list files"
       ELSE /\ result' = [ZeroResult EXCEPT !.Output = Out("no files found", 0, <<>>),
                                            !.Errors = warnings]
            /\ err' = "nil"
    /\ pc' = TrimExit
    /\ UNCHANGED <<disk, fsVars, tuiVars, cli, errVars, concVars, jbVars, sizeVars, callVars, runVars, cancelled, scanVars, planVars, idx, output,
                   deleteErrors, fullVars, cmdVars, cleanVars, histVars>>

\* Trim: sort, phase 1 and phase 2
TrimPlanStep ==
    /\ pc = "walk"
    /\ op \in {"Trim", "SmartClean"}
    /\ WalkersDone
    /\ firstErr = "nil"
    /\ files # <<>>
    /\ LET sorted == SortByModTime(files)
           c == Cutoff(opts.MaxAge)
           t == TargetSize(opts.MaxSize)
           plan == TrimPlan(sorted, c, t)
       IN /\ files' = sorted
          /\ cutoff' = c
          /\ targetSize' = t
          /\ ageMarked' = AgePhase(sorted, c)
          /\ remaining0' = SumSize(Remaining(sorted, c))
          /\ toDelete' = plan
          /\ remainingSize' = SumSize(sorted) - SumSize(plan)
    /\ deleteErrors' = warnings
    /\ idx' = 1
    /\ pc' = "delete"
    /\ UNCHANGED <<disk, fsVars, tuiVars, cli, errVars, concVars, jbVars, sizeVars, callVars, runVars, cancelled, walker, warnings, output, result,
                   err, fullVars, cmdVars, cleanVars, histVars>>

\* mutant: the interrupted return drops the counts of the deletions made
TrimInterruptedDropsCounts ==
    /\ pc = "delete"
    /\ idx <= Len(toDelete)
    /\ cancelled
    /\ result' = [ZeroResult EXCEPT !.Output = Out("interrupted", 0, <<>>)]
    /\ err' = "context canceled"
    /\ pc' = TrimExit
    /\ UNCHANGED <<disk, fsVars, tuiVars, cli, errVars, concVars, jbVars, sizeVars, callVars, runVars, cancelled, scanVars, planVars, idx, output,
                   deleteErrors, fullVars, cmdVars, cleanVars, histVars>>

\* Trim: a pass of the deletion loop whose select finds ctx.Done() closed
TrimInterrupted ==
    /\ pc = "delete"
    /\ idx <= Len(toDelete)
    /\ cancelled
    /\ result' = [result EXCEPT !.Output = Out("interrupted", 0, <<>>)]
    /\ err' = "context canceled"
    /\ pc' = TrimExit
    /\ UNCHANGED <<disk, fsVars, tuiVars, cli, errVars, concVars, jbVars, sizeVars, callVars, runVars, cancelled, scanVars, planVars, idx, output,
                   deleteErrors, fullVars, cmdVars, cleanVars, histVars>>

\* mutant: the dry run lists the file but does not add its size
TrimWouldDeleteUncounted ==
    /\ pc = "delete"
    /\ idx <= Len(toDelete)
    /\ ~cancelled
    /\ opts.DryRun
    /\ LET f == toDelete[idx]
       IN /\ output' = Append(output, f.Path)
          /\ result' = [result EXCEPT !.DeletedCount = @ + 1]
          /\ attempted' = Append(attempted, f)
    /\ idx' = idx + 1
    /\ UNCHANGED <<disk, fsVars, tuiVars, cli, errVars, concVars, jbVars, sizeVars, callVars, runVars, cancelled, pc, scanVars, planVars,
                   deleteErrors, err, fullVars, cmdVars, cleanVars, removed>>

\* Trim: a pass of the deletion loop in a dry run
TrimWouldDelete ==
    /\ pc = "delete"
    /\ idx <= Len(toDelete)
    /\ ~cancelled
    /\ opts.DryRun
    /\ LET f == toDelete[idx]
       IN /\ output' = Append(output, f.Path)
          /\ result' = [result EXCEPT !.FreedBytes = @ + f.Size, !.DeletedCount = @ + 1]
          /\ attempted' = Append(attempted, f)
    /\ idx' = idx + 1
    /\ UNCHANGED <<disk, fsVars, tuiVars, cli, errVars, concVars, jbVars, sizeVars, callVars, runVars, cancelled, pc, scanVars, planVars,
                   deleteErrors, err, fullVars, cmdVars, cleanVars, removed>>

\* mutant: a removal is counted but its bytes are not
TrimRemoveFreesNothing ==
    /\ pc = "delete"
    /\ idx <= Len(toDelete)
    /\ ~cancelled
    /\ ~opts.DryRun
    /\ LET f == toDelete[idx]
       IN /\ f.Path \in DOMAIN disk
          /\ disk' = [p \in DOMAIN disk \ {f.Path} |-> disk[p]]
          /\ result' = [result EXCEPT !.DeletedCount = @ + 1]
          /\ removed' = Append(removed, f.Path)
          /\ attempted' = Append(attempted, f)
    /\ idx' = idx + 1
    /\ UNCHANGED <<fsVars, tuiVars, cli, errVars, concVars, jbVars, sizeVars, callVars, runVars, cancelled, pc, scanVars, planVars, output,
                   deleteErrors, err, fullVars, cmdVars, cleanVars>>

\* mutant: the file is removed without a look at the context
TrimRemoveUnpolled ==
    /\ pc = "delete"
    /\ idx <= Len(toDelete)
    /\ ~opts.DryRun
    /\ LET f == toDelete[idx]
       IN /\ f.Path \in DOMAIN disk
          /\ disk' = [p \in DOMAIN disk \ {f.Path} |-> disk[p]]
          /\ result' = [result EXCEPT !.FreedBytes = @ + f.Size, !.DeletedCount = @ + 1]
          /\ removed' = Append(removed, f.Path)
          /\ attempted' = Append(attempted, f)
    /\ idx' = idx + 1
    /\ UNCHANGED <<fsVars, tuiVars, cli, errVars, concVars, jbVars, sizeVars, callVars, runVars, cancelled, pc, scanVars, planVars, output,
                   deleteErrors, err, fullVars, cmdVars, cleanVars>>

\* Trim: a pass of the deletion loop in a real run, os.Remove succeeds
TrimRemove ==
    /\ pc = "delete"
    /\ idx <= Len(toDelete)
    /\ ~cancelled
    /\ ~opts.DryRun
    /\ LET f == toDelete[idx]
       IN /\ f.Path \in DOMAIN disk
          /\ disk' = [p \in DOMAIN disk \ {f.Path} |-> disk[p]]
          /\ result' = [result EXCEPT !.FreedBytes = @ + f.Size, !.DeletedCount = @ + 1]
          /\ removed' = Append(removed, f.Path)
          /\ attempted' = Append(attempted, f)
    /\ idx' = idx + 1
    /\ UNCHANGED <<fsVars, tuiVars, cli, errVars, concVars, jbVars, sizeVars, callVars, runVars, cancelled, pc, scanVars, planVars, output,
                   deleteErrors, err, fullVars, cmdVars, cleanVars>>

\* mutant: a failed removal is counted as a deletion all the same
TrimRemoveFailsCounted ==
    /\ pc = "delete"
    /\ idx <= Len(toDelete)
    /\ ~cancelled
    /\ ~opts.DryRun
    /\ LET f == toDelete[idx]
           e == IF f.Path \in DOMAIN disk THEN RemoveErrno(f.Path) ELSE "ENOENT"
       IN /\ deleteErrors' = Append(deleteErrors, ClassifyError(f.Path, PathError(e)))
          /\ result' = [result EXCEPT !.FreedBytes = @ + f.Size, !.DeletedCount = @ + 1]
          /\ attempted' = Append(attempted, f)
    /\ idx' = idx + 1
    /\ UNCHANGED <<disk, fsVars, tuiVars, cli, errVars, concVars, jbVars, sizeVars, callVars, runVars, cancelled, pc, scanVars, planVars, output,
                   err, fullVars, cmdVars, cleanVars, removed>>

\* Trim: a pass of the deletion loop in a real run, os.Remove fails
TrimRemoveFails ==
    /\ pc = "delete"
    /\ idx <= Len(toDelete)
    /\ ~cancelled
    /\ ~opts.DryRun
    /\ LET f == toDelete[idx]
           e == IF f.Path \in DOMAIN disk THEN RemoveErrno(f.Path) ELSE "ENOENT"
       IN /\ deleteErrors' = Append(deleteErrors, ClassifyError(f.Path, PathError(e)))
          /\ attempted' = Append(attempted, f)
    /\ idx' = idx + 1
    /\ UNCHANGED <<disk, fsVars, tuiVars, cli, errVars, concVars, jbVars, sizeVars, callVars, runVars, cancelled, pc, scanVars, planVars, output,
                   result, err, fullVars, cmdVars, cleanVars, removed>>

\* Trim: the deletion loop is over, the dry-run or the "deleted N files" return
TrimReturn ==
    /\ pc = "delete"
    /\ idx > Len(toDelete)
    /\ result' = IF opts.DryRun
                 THEN [result EXCEPT !.Output = Out("would delete", 0, output)]
                 ELSE [result EXCEPT !.Output = Out("deleted files", result.DeletedCount, <<>>),
                                     !.Errors = deleteErrors]
    /\ err' = "nil"
    /\ pc' = TrimExit
    /\ UNCHANGED <<disk, fsVars, tuiVars, cli, errVars, concVars, jbVars, sizeVars, callVars, runVars, cancelled, scanVars, planVars, idx, output,
                   deleteErrors, fullVars, cmdVars, cleanVars, histVars>>

\* The owner of the context cancels it: before the call, while a deletion loop
\* runs or while the command runs (the walk and the plan never look at the
\* context, so a cancel during them is the cancel before the first pass).
Cancel ==
    /\ ~cancelled
    /\ pc \in {"start", "delete", "fullloop", "run"}
    /\ cancelled' = TRUE
    /\ cancelledAt' = pc
    /\ UNCHANGED <<disk, fsVars, tuiVars, cli, errVars, concVars, jbVars, sizeVars, callVars, callNo, prev, disk0, pc, scanVars, planVars, idx, output,
                   deleteErrors, result, err, fullVars, cmdVars, cleanVars, histVars>>

\* The caller, whose first Trim returned without error, calls Trim again on the
\* same roots with a fresh context, as a dry run or as a real run, keeping what
\* the first call returned.
TrimAgain(dry) ==
    /\ pc = "done"
    /\ op = "Trim"
    /\ err = "nil"
    /\ callNo = 1
    /\ callNo' = 2
    /\ prev' = [result |-> result, err |-> err, attempted |-> attempted, sorted |-> files]
    /\ disk0' = disk
    /\ opts' = [opts EXCEPT !.DryRun = dry]
    /\ cancelled' = FALSE
    /\ cancelledAt' = "never"
    /\ pc' = "start"
    /\ walker' = <<>>
    /\ files' = <<>>
    /\ cutoff' = 0
    /\ targetSize' = 0
    /\ remainingSize' = 0
    /\ remaining0' = 0
    /\ ageMarked' = <<>>
    /\ toDelete' = <<>>
    /\ idx' = 0
    /\ output' = <<>>
    /\ deleteErrors' = <<>>
    /\ result' = ZeroResult
    /\ err' = "nil"
    /\ removed' = <<>>
    /\ attempted' = <<>>
    /\ UNCHANGED <<disk, fsVars, tuiVars, cli, errVars, concVars, jbVars, sizeVars, op, cleanCmd, warnings, fullVars, cmdVars, cleanVars>>

\* -------------------------------------------------------------- providers
CountReason(errors, reasons) ==
    Cardinality({i \in 1..Len(errors) : errors[i].Reason \in reasons})

\* formatResultWithErrors: the summary followed by the per-reason counts
formatResultWithErrors(base, deleted, errors) ==
    LET permCount == CountReason(errors, {"permission denied"})
        lockedCount == CountReason(errors, {"file locked"})
        otherCount == Len(errors) - permCount - lockedCount
        parts == <<permCount, lockedCount, otherCount>>
    IN IF permCount = 0 /\ lockedCount = 0 /\ otherCount = 0 THEN base
       ELSE IF base = NoOutput
            THEN [Out("deleted files", deleted, <<>>) EXCEPT !.suffix = parts]
            ELSE [base EXCEPT !.suffix = parts]

\* FileProvider.smartClean, once Trim has returned
FileSmartCleanReturn ==
    /\ pc = "trimmed"
    /\ provider' = "file"
    /\ IF err # "nil"
       THEN /\ cleanResult' = ZeroClean
            /\ cleanErr' = err
       ELSE /\ cleanResult' =
                 CleanResult(IF Len(result.Errors) > 0
                             THEN formatResultWithErrors(result.Output, result.DeletedCount,
                                                         result.Errors)
                             ELSE result.Output,
                             result.FreedBytes, result.DeletedCount)
            /\ cleanErr' = "nil"
    /\ pc' = "done"
    /\ UNCHANGED <<disk, fsVars, tuiVars, cli, errVars, concVars, jbVars, sizeVars, callVars, runVars, cancelled, scanVars, planVars, idx, output,
                   deleteErrors, result, err, fullVars, cmdVars, histVars>>

\* CommandProvider.smartClean, once Trim has returned
CommandSmartCleanReturn ==
    /\ pc = "trimmed"
    /\ provider' = "command"
    /\ IF err # "nil"
       THEN /\ cleanResult' = ZeroClean
            /\ cleanErr' = err
       ELSE /\ cleanResult' = CleanResult(result.Output, result.FreedBytes, result.DeletedCount)
            /\ cleanErr' = "nil"
    /\ pc' = "done"
    /\ UNCHANGED <<disk, fsVars, tuiVars, cli, errVars, concVars, jbVars, sizeVars, callVars, runVars, cancelled, scanVars, planVars, idx, output,
                   deleteErrors, result, err, fullVars, cmdVars, histVars>>

\* FileProvider.fullClean: CurrentSize, the "already under limit" return, or the
\* start of ListFiles
FileFullStart ==
    /\ pc = "start"
    /\ op = "FileFull"
    /\ provider' = "file"
    /\ currentSize' = CalculateSize(disk)
    /\ IF CalculateSize(disk) <= opts.MaxSize
       THEN /\ cleanResult' = CleanResult(Out("already under limit", 0, <<>>), 0, 0)
            /\ pc' = "done"
            /\ UNCHANGED walker
       ELSE /\ walker' = StartWalkers
            /\ pc' = "walk"
            /\ UNCHANGED cleanResult
    /\ UNCHANGED <<disk, fsVars, tuiVars, cli, errVars, concVars, jbVars, sizeVars, callVars, runVars, cancelled, files, warnings, planVars, idx,
                   output, deleteErrors, result, err, bytesDeleted, filesDeleted,
                   cmdVars, cleanErr, histVars>>

\* FileProvider.fullClean: ListFiles has returned, sort the files
FileFullSort ==
    /\ pc = "walk"
    /\ op = "FileFull"
    /\ WalkersDone
    /\ files' = SortByModTime(files)
    /\ deleteErrors' = warnings
    /\ idx' = 1
    /\ pc' = "fullloop"
    /\ UNCHANGED <<disk, fsVars, tuiVars, cli, errVars, concVars, jbVars, sizeVars, callVars, runVars, cancelled, walker, warnings, planVars,
                   output, result, err, fullVars, cmdVars, cleanVars, histVars>>

\* bytesToDelete = currentSize - p.maxSize
BytesToDelete == currentSize - opts.MaxSize

\* mutant: the loop stops only once more than bytesToDelete is deleted
FullLoopOvershoots == idx <= Len(files) /\ bytesDeleted <= BytesToDelete

\* the loop of fullClean goes on: a file is left and too few bytes are deleted
FullLoopGoesOn == idx <= Len(files) /\ bytesDeleted < BytesToDelete

\* FileProvider.fullClean: a pass of the loop whose select finds ctx.Done() closed
FileFullInterrupted ==
    /\ pc = "fullloop"
    /\ FullLoopGoesOn
    /\ cancelled
    /\ cleanResult' = CleanResult(Out("interrupted", 0, <<>>), bytesDeleted, filesDeleted)
    /\ cleanErr' = "context canceled"
    /\ pc' = "done"
    /\ UNCHANGED <<disk, fsVars, tuiVars, cli, errVars, concVars, jbVars, sizeVars, callVars, runVars, cancelled, scanVars, planVars, idx, output,
                   deleteErrors, result, err, fullVars, cmdVars, provider, histVars>>

\* mutant: the dry run removes the file
FileFullDryRunRemoves ==
    /\ pc = "fullloop"
    /\ FullLoopGoesOn
    /\ ~cancelled
    /\ opts.DryRun
    /\ LET f == files[idx]
       IN /\ f.Path \in DOMAIN disk
          /\ disk' = [p \in DOMAIN disk \ {f.Path} |-> disk[p]]
          /\ output' = Append(output, f.Path)
          /\ bytesDeleted' = bytesDeleted + f.Size
          /\ filesDeleted' = filesDeleted + 1
          /\ attempted' = Append(attempted, f)
    /\ idx' = idx + 1
    /\ UNCHANGED <<fsVars, tuiVars, cli, errVars, concVars, jbVars, sizeVars, callVars, runVars, cancelled, pc, scanVars, planVars,
                   deleteErrors, result, err, currentSize, cmdVars, cleanVars, removed>>

\* FileProvider.fullClean: a pass of the loop in a dry run
FileFullWouldDelete ==
    /\ pc = "fullloop"
    /\ FullLoopGoesOn
    /\ ~cancelled
    /\ opts.DryRun
    /\ LET f == files[idx]
       IN /\ output' = Append(output, f.Path)
          /\ bytesDeleted' = bytesDeleted + f.Size
          /\ filesDeleted' = filesDeleted + 1
          /\ attempted' = Append(attempted, f)
    /\ idx' = idx + 1
    /\ UNCHANGED <<disk, fsVars, tuiVars, cli, errVars, concVars, jbVars, sizeVars, callVars, runVars, cancelled, pc, scanVars, planVars,
                   deleteErrors, result, err, currentSize, cmdVars, cleanVars, removed>>

\* FileProvider.fullClean: a pass of the loop in a real run, os.Remove succeeds
FileFullRemove ==
    /\ pc = "fullloop"
    /\ FullLoopGoesOn
    /\ ~cancelled
    /\ ~opts.DryRun
    /\ LET f == files[idx]
       IN /\ f.Path \in DOMAIN disk
          /\ disk' = [p \in DOMAIN disk \ {f.Path} |-> disk[p]]
          /\ bytesDeleted' = bytesDeleted + f.Size
          /\ filesDeleted' = filesDeleted + 1
          /\ removed' = Append(removed, f.Path)
          /\ attempted' = Append(attempted, f)
    /\ idx' = idx + 1
    /\ UNCHANGED <<fsVars, tuiVars, cli, errVars, concVars, jbVars, sizeVars, callVars, runVars, cancelled, pc, scanVars, planVars, output,
                   deleteErrors, result, err, currentSize, cmdVars, cleanVars>>

\* FileProvider.fullClean: a pass of the loop in a real run, os.Remove fails
FileFullRemoveFails ==
    /\ pc = "fullloop"
    /\ FullLoopGoesOn
    /\ ~cancelled
    /\ ~opts.DryRun
    /\ LET f == files[idx]
           e == IF f.Path \in DOMAIN disk THEN RemoveErrno(f.Path) ELSE "ENOENT"
       IN /\ deleteErrors' = Append(deleteErrors, ClassifyError(f.Path, PathError(e)))
          /\ attempted' = Append(attempted, f)
    /\ idx' = idx + 1
    /\ UNCHANGED <<disk, fsVars, tuiVars, cli, errVars, concVars, jbVars, sizeVars, callVars, runVars, cancelled, pc, scanVars, planVars, output,
                   result, err, fullVars, cmdVars, cleanVars, removed>>

\* FileProvider.fullClean: the loop is over
FileFullReturn ==
    /\ pc = "fullloop"
    /\ ~FullLoopGoesOn
    /\ cleanResult' =
         IF opts.DryRun
         THEN CleanResult(Out("would delete", 0, output), bytesDeleted, filesDeleted)
         ELSE CleanResult(IF Len(deleteErrors) > 0
                          THEN formatResultWithErrors(Out("deleted files", filesDeleted, <<>>),
                                                      filesDeleted, deleteErrors)
                          ELSE Out("deleted files", filesDeleted, <<>>),
                          bytesDeleted, filesDeleted)
    /\ cleanErr' = "nil"
    /\ pc' = "done"
    /\ UNCHANGED <<disk, fsVars, tuiVars, cli, errVars, concVars, jbVars, sizeVars, callVars, runVars, cancelled, scanVars, planVars, idx, output,
                   deleteErrors, result, err, fullVars, cmdVars, provider, histVars>>

\* CommandProvider.fullClean up to cmd.Run: the dry-run return, CurrentSize,
\* shellquote.Split and its two early returns, and the start of the command
\* (exec starts nothing under a context that is already done)
CommandFullStart ==
    /\ pc = "start"
    /\ op = "CommandFull"
    /\ provider' = "command"
    /\ IF opts.DryRun
       THEN /\ cleanResult' = CleanResult(Out("would run", 0, <<cleanCmd>>), 0, 0)
            /\ cleanErr' = "nil"
            /\ pc' = "done"
            /\ UNCHANGED <<currentSize, cmdParsed, cmdStarted>>
       ELSE /\ currentSize' = CalculateSize(disk)
            /\ cmdParsed' = TRUE
            /\ CASE cleanCmd = "invalid" ->
                      /\ cleanResult' = ZeroClean
                      /\ cleanErr' = "invalid command"
                      /\ pc' = "done"
                      /\ UNCHANGED cmdStarted
                 [] cleanCmd = "empty" ->
                      /\ cleanResult' = ZeroClean
                      /\ cleanErr' = "nil"
                      /\ pc' = "done"
                      /\ UNCHANGED cmdStarted
                 [] OTHER ->
                      IF cancelled
                      THEN /\ cleanResult' = ZeroClean
                           /\ cleanErr' = "context canceled"
                           /\ pc' = "done"
                           /\ UNCHANGED cmdStarted
                      ELSE /\ cmdStarted' = TRUE
                           /\ pc' = "run"
                           /\ UNCHANGED <<cleanResult, cleanErr>>
    /\ UNCHANGED <<disk, fsVars, tuiVars, cli, errVars, concVars, jbVars, sizeVars, callVars, runVars, cancelled, scanVars, planVars, idx, output,
                   deleteErrors, result, err, bytesDeleted, filesDeleted, captured, probes,
                   histVars>>

\* what a command can write to one of its streams: a text is a sequence of
\* characters, " " stands for any white space
Texts == {<<>>, <<"x">>, <<" ", "x">>, <<"x", " ">>}

\* the line end, as a character of a text
LF == "\n"

\* unicode.IsSpace, on the characters the texts use
IsSpace(c) == c \in {" ", "\t", "\r", LF}

RECURSIVE TrimLeft(_)
TrimLeft(s) == IF s # <<>> /\ IsSpace(Head(s)) THEN TrimLeft(Tail(s)) ELSE s

RECURSIVE TrimRight(_)
TrimRight(s) == IF s # <<>> /\ IsSpace(Last(s)) THEN TrimRight(Front(s)) ELSE s

\* mutant: the captured text is returned as it was written
TrimSpaceNot(s) == s

\* strings.TrimSpace
TrimSpace(s) == TrimRight(TrimLeft(s))

\* CommandProvider.fullClean from cmd.Run on (DockerProvider's smartClean and
\* fullClean end the same way): the tool writes what it writes, removes what it
\* removes and exits; a cancelled context kills it, which is a failed exit
CommandRun ==
    /\ pc = "run"
    /\ \E victims \in {{}, DOMAIN disk}, exit \in {"ok", "exit status 1"},
          stdout \in Texts, stderr \in Texts :
          /\ cancelled => exit # "ok"
          /\ disk' = [p \in DOMAIN disk \ victims |-> disk[p]]
          /\ captured' = [stdout |-> stdout, stderr |-> stderr, exit |-> exit]
          /\ IF exit # "ok"
             THEN /\ cleanResult' =
                       CleanResult(Out("command output", 0, TrimSpace(stdout \o stderr)), 0, 0)
                  /\ cleanErr' = exit
             ELSE /\ cleanResult' =
                       CleanResult(Out("command output", 0, TrimSpace(stdout \o stderr)),
                                   IF currentSize - CalculateSize(disk') < 0 THEN 0
                                   ELSE currentSize - CalculateSize(disk'), 0)
                  /\ cleanErr' = "nil"
    /\ pc' = "done"
    /\ UNCHANGED <<fsVars, tuiVars, cli, errVars, concVars, jbVars, sizeVars, callVars, runVars, cancelled, scanVars, planVars, idx,
                   output, deleteErrors, result, err, fullVars, cmdParsed, cmdStarted,
                   probes, provider, histVars>>

\* --------------------------------------------------- ClassifyError by itself
\* the errors a caller can pass: nil, an errno, a sentinel of package os, an
\* error of the caller's own, or any of these wrapped in a *fs.PathError
ErrorLeaves ==
    {"EACCES", "EPERM", "ENOENT", "EBUSY", "ETXTBSY", "EIO",
     "ErrPermission", "ErrNotExist", "custom error"}

ErrorValues == {<<>>} \cup {<<l>> : l \in ErrorLeaves} \cup {PathError(l) : l \in ErrorLeaves}

\* a caller calls ClassifyError(path, e)
ClassifyErrorCall ==
    /\ op = "ClassifyError"
    /\ Len(classified) < MaxCalls
    /\ \E path \in Paths, e \in ErrorValues :
          classified' = Append(classified, [path |-> path, e |-> e, value |-> ClassifyError(path, e)])
    /\ UNCHANGED <<disk, fsVars, tuiVars, cli, concVars, jbVars, sizeVars, callVars, runVars, cancelled, pc, scanVars, planVars,
                   idx, output, deleteErrors, result, err, fullVars, cmdVars, cleanVars, histVars>>

\* ---------------------------------------------------------- the clean command
\* the standard inputs tried: answers with and without the line end, in
\* either case, with blanks, other words, an empty line and an empty input
Stdins ==
    {<<"y", LF>>, <<"Y", LF>>, <<"y", "e", "s", LF>>, <<"Y", "e", "S", LF>>, <<" ", "y", " ", LF>>,
     <<"y">>, <<"y", "\r", LF>>, <<"y", LF, "n", LF>>,
     <<"n", LF>>, <<"N", "o", LF>>, <<LF>>, <<>>, <<"y", "e", LF>>, <<"y", "e", "s", "s", LF>>,
     <<"y", " ", "e", "s", LF>>, <<LF, "y", LF>>, <<"n", LF, "y", LF>>}

\* bufio.Reader.ReadString('\n') on a fresh reader: the input up to the first
\* line end and with it, or all of it when there is none (the error is dropped)
ReadString(in) ==
    IF \E i \in 1..Len(in) : in[i] = LF
    THEN SubSeq(in, 1, CHOOSE i \in 1..Len(in) : in[i] = LF /\ \A j \in 1..(i - 1) : in[j] # LF)
    ELSE in

\* strings.ToLower, on the letters the inputs use
ToLower(s) ==
    [i \in 1..Len(s) |->
        CASE s[i] = "Y" -> "y" [] s[i] = "E" -> "e" [] s[i] = "S" -> "s"
          [] s[i] = "N" -> "n" [] s[i] = "O" -> "o" [] OTHER -> s[i]]

\* mutant: an empty answer counts as yes
confirmCleanDefaultYes(in) ==
    LET response == TrimSpace(ToLower(ReadString(in)))
    IN response = <<"y">> \/ response = <<"y", "e", "s">> \/ response = <<>>

\* confirmClean
confirmClean(in) ==
    LET response == TrimSpace(ToLower(ReadString(in)))
    IN response = <<"y">> \/ response = <<"y", "e", "s">>

\* loadAndFilterProviders: the names that load and are available, in order
loadAndFilterProviders(names) ==
    SelectSeq([i \in 1..Len(names) |-> i], LAMBDA i : names[i] = "ok")

\* the command has not returned
NoReturn == [kind |-> "none", failed |-> <<>>]

\* runCleanWithLoader up to the call of executeClean
runCleanWithLoader ==
    /\ op = "CleanCmd"
    /\ cli.pc = "start"
    /\ LET ps == loadAndFilterProviders(cli.names)
       IN cli' = IF ps = <<>>
                 THEN [cli EXCEPT !.pc = "returned",
                                  !.ret = [kind |-> "no available providers", failed |-> <<>>]]
                 ELSE IF ~cli.force /\ ~cli.dryRun /\ ~confirmClean(cli.stdin)
                 THEN [cli EXCEPT !.pc = "returned", !.providers = ps, !.aborted = TRUE,
                                  !.ret = [kind |-> "nil", failed |-> <<>>]]
                 ELSE [cli EXCEPT !.pc = "loop", !.providers = ps]
    /\ UNCHANGED <<disk, fsVars, tuiVars, errVars, concVars, jbVars, sizeVars, callVars, runVars,
                   cancelled, pc, scanVars, planVars, idx, output, deleteErrors, result, err,
                   fullVars, cmdVars, cleanVars, histVars>>

\* SIGINT or SIGTERM: the context of signal.NotifyContext is cancelled
CleanSignal ==
    /\ op = "CleanCmd"
    /\ cli.pc = "loop"
    /\ ~cli.cancelled
    /\ cli' = [cli EXCEPT !.cancelled = TRUE]
    /\ UNCHANGED <<disk, fsVars, tuiVars, errVars, concVars, jbVars, sizeVars, callVars, runVars,
                   cancelled, pc, scanVars, planVars, idx, output, deleteErrors, result, err,
                   fullVars, cmdVars, cleanVars, histVars>>

\* executeClean: one iteration of the loop over the providers
executeCleanNext ==
    /\ op = "CleanCmd"
    /\ cli.pc = "loop"
    /\ cli.idx <= Len(cli.providers)
    /\ IF cli.cancelled
       THEN cli' = [cli EXCEPT !.pc = "returned", !.ret = [kind |-> "nil", failed |-> <<>>]]
       ELSE \E e \in {"nil", "clean error"}, b \in {0, 1} :
               LET p == cli.providers[cli.idx]
                   c == [provider |-> p, err |-> e, BytesCleaned |-> b]
               IN cli' = IF e # "nil"
                         THEN [cli EXCEPT !.calls = Append(@, c), !.errors = Append(@, p),
                                          !.idx = @ + 1]
                         ELSE [cli EXCEPT !.calls = Append(@, c), !.totalCleaned = @ + b,
                                          !.idx = @ + 1]
    /\ UNCHANGED <<disk, fsVars, tuiVars, errVars, concVars, jbVars, sizeVars, callVars, runVars,
                   cancelled, pc, scanVars, planVars, idx, output, deleteErrors, result, err,
                   fullVars, cmdVars, cleanVars, histVars>>

\* executeClean: after the loop
executeCleanReturn ==
    /\ op = "CleanCmd"
    /\ cli.pc = "loop"
    /\ cli.idx > Len(cli.providers)
    /\ cli' = [cli EXCEPT !.pc = "returned",
                          !.ret = IF Len(cli.errors) > 0
                                  THEN [kind |-> "some providers failed", failed |-> cli.errors]
                                  ELSE [kind |-> "nil", failed |-> <<>>]]
    /\ UNCHANGED <<disk, fsVars, tuiVars, errVars, concVars, jbVars, sizeVars, callVars, runVars,
                   cancelled, pc, scanVars, planVars, idx, output, deleteErrors, result, err,
                   fullVars, cmdVars, cleanVars, histVars>>

\* ------------------------------------------------- two concurrent Trim calls
\* Two callers call Trim at the same time, each with its own options and its
\* own context, on the one root "top" that holds every file. The calls share
\* nothing but the disk; what is a local of Trim is a field of call[c].
Calls == {1, 2}

\* the locals of one call as it starts; removed, attempted and missing (the
\* paths that were gone when the call tried to remove them) are history
CallLocals(o) ==
    [opts |-> o, cancelled |-> FALSE, pc |-> "start", walker |-> <<>>, files |-> <<>>,
     warnings |-> <<>>, toDelete |-> <<>>, idx |-> 0, output |-> <<>>, deleteErrors |-> <<>>,
     result |-> ZeroResult, err |-> "nil", removed |-> <<>>, attempted |-> <<>>,
     missing |-> <<>>]

\* Trim calls ListFiles, which starts the walk of the root
ConcListFilesStart(c) ==
    /\ op = "ConcurrentTrim"
    /\ call[c].pc = "start"
    /\ call' = [call EXCEPT ![c].walker = <<Visit("top", 0)>>, ![c].pc = "walk"]
    /\ UNCHANGED <<disk, fsVars, tuiVars, cli, errVars, jbVars, sizeVars, callVars, runVars, cancelled, pc, scanVars, planVars,
                   idx, output, deleteErrors, result, err, fullVars, cmdVars, cleanVars, histVars>>

\* One step of the walk of call c: the callback on a directory, after which
\* ReadDir reads the directory as it is now, or the callback on an entry, whose
\* d.Info() fails with ENOENT when the file has been removed since it was read.
ConcWalk(c) ==
    /\ op = "ConcurrentTrim"
    /\ call[c].pc = "walk"
    /\ call[c].walker # <<>>
    /\ LET v == Head(call[c].walker)
           rest == Tail(call[c].walker)
       IN call' =
            IF v.entry = 0
            THEN [call EXCEPT ![c].walker =
                    (IF v.at = "top" THEN <<Visit("r1", 0), Visit("r2", 0)>>
                     ELSE [i \in 1..Len(DirEntries(disk, v.at)) |->
                             Visit(v.at, DirEntries(disk, v.at)[i])]) \o rest]
            ELSE IF v.entry \in DOMAIN disk
            THEN [call EXCEPT ![c].walker = rest,
                              ![c].files = Append(@, FileInfo(v.entry))]
            ELSE [call EXCEPT ![c].walker = rest,
                              ![c].warnings =
                                 Append(@, ClassifyError(v.entry, PathError("ENOENT")))]
    /\ UNCHANGED <<disk, fsVars, tuiVars, cli, errVars, jbVars, sizeVars, callVars, runVars, cancelled, pc, scanVars, planVars,
                   idx, output, deleteErrors, result, err, fullVars, cmdVars, cleanVars, histVars>>

\* Trim of call c once ListFiles has returned: the "no files found" return, or
\* the sort and the two phases
ConcPlan(c) ==
    /\ op = "ConcurrentTrim"
    /\ call[c].pc = "walk"
    /\ call[c].walker = <<>>
    /\ call' =
         IF call[c].files = <<>>
         THEN [call EXCEPT ![c].result = [ZeroResult EXCEPT !.Output = Out("no files found", 0, <<>>),
                                                             !.Errors = call[c].warnings],
                           ![c].pc = "done"]
         ELSE LET sorted == SortByModTime(call[c].files)
              IN [call EXCEPT ![c].files = sorted,
                              ![c].toDelete = TrimPlan(sorted, Cutoff(call[c].opts.MaxAge),
                                                       TargetSize(call[c].opts.MaxSize)),
                              ![c].deleteErrors = call[c].warnings,
                              ![c].idx = 1,
                              ![c].pc = "delete"]
    /\ UNCHANGED <<disk, fsVars, tuiVars, cli, errVars, jbVars, sizeVars, callVars, runVars, cancelled, pc, scanVars, planVars,
                   idx, output, deleteErrors, result, err, fullVars, cmdVars, cleanVars, histVars>>

\* the context of call c is cancelled
ConcCancel(c) ==
    /\ op = "ConcurrentTrim"
    /\ call[c].pc = "delete"
    /\ ~call[c].cancelled
    /\ call' = [call EXCEPT ![c].cancelled = TRUE]
    /\ UNCHANGED <<disk, fsVars, tuiVars, cli, errVars, jbVars, sizeVars, callVars, runVars, cancelled, pc, scanVars, planVars,
                   idx, output, deleteErrors, result, err, fullVars, cmdVars, cleanVars, histVars>>

\* mutant: a removal that does not find the file is counted as a deletion
ConcDeleteCountsMissing(c) ==
    /\ op = "ConcurrentTrim"
    /\ call[c].pc = "delete"
    /\ call[c].idx <= Len(call[c].toDelete)
    /\ LET f == call[c].toDelete[call[c].idx]
           next == [call EXCEPT ![c].idx = @ + 1, ![c].attempted = Append(@, f),
                                ![c].missing = IF f.Path \in DOMAIN disk THEN @
                                               ELSE Append(@, f.Path)]
           counted == [next EXCEPT ![c].result.FreedBytes = @ + f.Size,
                                   ![c].result.DeletedCount = @ + 1]
       IN IF call[c].cancelled
          THEN /\ call' = [call EXCEPT ![c].result.Output = Out("interrupted", 0, <<>>),
                                       ![c].err = "context canceled",
                                       ![c].pc = "done"]
               /\ UNCHANGED disk
          ELSE IF call[c].opts.DryRun
          THEN /\ call' = [counted EXCEPT ![c].output = Append(@, f.Path)]
               /\ UNCHANGED disk
          ELSE IF f.Path \in DOMAIN disk
          THEN \/ /\ disk' = [p \in DOMAIN disk \ {f.Path} |-> disk[p]]
                  /\ call' = [counted EXCEPT ![c].removed = Append(@, f.Path)]
               \/ /\ call' = [next EXCEPT ![c].deleteErrors =
                                Append(@, ClassifyError(f.Path, PathError(RemoveErrno(f.Path))))]
                  /\ UNCHANGED disk
          ELSE /\ call' = [counted EXCEPT ![c].removed = Append(@, f.Path)]
               /\ UNCHANGED disk
    /\ UNCHANGED <<fsVars, tuiVars, cli, errVars, jbVars, sizeVars, callVars, runVars, cancelled, pc, scanVars, planVars,
                   idx, output, deleteErrors, result, err, fullVars, cmdVars, cleanVars, histVars>>

\* One pass of the deletion loop of call c: the interrupted return, the dry-run
\* accounting, or os.Remove, which removes the file if it is still there and
\* allowed to, and fails with ENOENT if another call has removed it.
ConcDelete(c) ==
    /\ op = "ConcurrentTrim"
    /\ call[c].pc = "delete"
    /\ call[c].idx <= Len(call[c].toDelete)
    /\ LET f == call[c].toDelete[call[c].idx]
           next == [call EXCEPT ![c].idx = @ + 1, ![c].attempted = Append(@, f),
                                ![c].missing = IF f.Path \in DOMAIN disk THEN @
                                               ELSE Append(@, f.Path)]
           counted == [next EXCEPT ![c].result.FreedBytes = @ + f.Size,
                                   ![c].result.DeletedCount = @ + 1]
       IN IF call[c].cancelled
          THEN /\ call' = [call EXCEPT ![c].result.Output = Out("interrupted", 0, <<>>),
                                       ![c].err = "context canceled",
                                       ![c].pc = "done"]
               /\ UNCHANGED disk
          ELSE IF call[c].opts.DryRun
          THEN /\ call' = [counted EXCEPT ![c].output = Append(@, f.Path)]
               /\ UNCHANGED disk
          ELSE IF f.Path \in DOMAIN disk
          THEN \/ /\ disk' = [p \in DOMAIN disk \ {f.Path} |-> disk[p]]
                  /\ call' = [counted EXCEPT ![c].removed = Append(@, f.Path)]
               \/ /\ call' = [next EXCEPT ![c].deleteErrors =
                                Append(@, ClassifyError(f.Path, PathError(RemoveErrno(f.Path))))]
                  /\ UNCHANGED disk
          ELSE /\ call' = [next EXCEPT ![c].deleteErrors =
                             Append(@, ClassifyError(f.Path, PathError("ENOENT")))]
               /\ UNCHANGED disk
    /\ UNCHANGED <<fsVars, tuiVars, cli, errVars, jbVars, sizeVars, callVars, runVars, cancelled, pc, scanVars, planVars,
                   idx, output, deleteErrors, result, err, fullVars, cmdVars, cleanVars, histVars>>

\* Trim of call c: the deletion loop is over
ConcReturn(c) ==
    /\ op = "ConcurrentTrim"
    /\ call[c].pc = "delete"
    /\ call[c].idx > Len(call[c].toDelete)
    /\ call' =
         IF call[c].opts.DryRun
         THEN [call EXCEPT ![c].result.Output = Out("would delete", 0, call[c].output),
                           ![c].pc = "done"]
         ELSE [call EXCEPT ![c].result.Output =
                              Out("deleted files", call[c].result.DeletedCount, <<>>),
                           ![c].result.Errors = call[c].deleteErrors,
                           ![c].pc = "done"]
    /\ UNCHANGED <<disk, fsVars, tuiVars, cli, errVars, jbVars, sizeVars, callVars, runVars, cancelled, pc, scanVars, planVars,
                   idx, output, deleteErrors, result, err, fullVars, cmdVars, cleanVars, histVars>>

\* ------------------------------------------------------------------ Docker
\* DockerProvider.Available: exec.LookPath("docker"), then `docker ps --quiet`
DockerAvailable == docker.bin /\ docker.daemon

\* the processes one call of Available starts: the probe, when the binary is found
AvailableProbes == IF docker.bin THEN 1 ELSE 0

\* the command a Docker clean runs: the buildx prune of smartClean, or cleanCmd
DockerCmd == IF op = "DockerSmart" THEN "valid" ELSE cleanCmd

\* mutant: Clean goes on without a look at Available
DockerCleanUnchecked ==
    /\ pc = "start"
    /\ op \in {"DockerSmart", "DockerFull"}
    /\ provider' = "docker"
    /\ UNCHANGED probes
    /\ IF opts.DryRun
       THEN /\ cleanResult' = CleanResult(Out("would run", 0, <<DockerCmd>>), 0, 0)
            /\ cleanErr' = "nil"
            /\ pc' = "done"
            /\ UNCHANGED <<currentSize, cmdParsed, cmdStarted>>
       ELSE /\ currentSize' = CalculateSize(disk)
            /\ cmdParsed' = (op = "DockerFull")
            /\ CASE DockerCmd = "invalid" ->
                      /\ cleanResult' = ZeroClean
                      /\ cleanErr' = "invalid command"
                      /\ pc' = "done"
                      /\ UNCHANGED cmdStarted
                 [] DockerCmd = "empty" ->
                      /\ cleanResult' = ZeroClean
                      /\ cleanErr' = "nil"
                      /\ pc' = "done"
                      /\ UNCHANGED cmdStarted
                 [] OTHER ->
                      IF cancelled
                      THEN /\ cleanResult' = ZeroClean
                           /\ cleanErr' = "context canceled"
                           /\ pc' = "done"
                           /\ UNCHANGED cmdStarted
                      ELSE /\ cmdStarted' = TRUE
                           /\ pc' = "run"
                           /\ UNCHANGED <<cleanResult, cleanErr>>
    /\ UNCHANGED <<disk, fsVars, tuiVars, cli, errVars, concVars, jbVars, sizeVars, callVars, runVars, cancelled, scanVars, planVars,
                   idx, output, deleteErrors, result, err, bytesDeleted, filesDeleted,
                   captured, histVars>>

\* DockerProvider.Clean up to cmd.Run: Available and the "docker not available"
\* return, then smartClean or fullClean: the dry-run return, CurrentSize,
\* shellquote.Split of cleanCmd with its two early returns (fullClean only), and
\* the start of the command
DockerClean ==
    /\ pc = "start"
    /\ op \in {"DockerSmart", "DockerFull"}
    /\ provider' = "docker"
    /\ probes' = probes + AvailableProbes
    /\ IF ~DockerAvailable
       THEN /\ cleanResult' = CleanResult(Out("docker not available", 0, <<>>), 0, 0)
            /\ cleanErr' = "nil"
            /\ pc' = "done"
            /\ UNCHANGED <<currentSize, cmdParsed, cmdStarted>>
       ELSE IF opts.DryRun
       THEN /\ cleanResult' = CleanResult(Out("would run", 0, <<DockerCmd>>), 0, 0)
            /\ cleanErr' = "nil"
            /\ pc' = "done"
            /\ UNCHANGED <<currentSize, cmdParsed, cmdStarted>>
       ELSE /\ currentSize' = CalculateSize(disk)
            /\ cmdParsed' = (op = "DockerFull")
            /\ CASE DockerCmd = "invalid" ->
                      /\ cleanResult' = ZeroClean
                      /\ cleanErr' = "invalid command"
                      /\ pc' = "done"
                      /\ UNCHANGED cmdStarted
                 [] DockerCmd = "empty" ->
                      /\ cleanResult' = ZeroClean
                      /\ cleanErr' = "nil"
                      /\ pc' = "done"
                      /\ UNCHANGED cmdStarted
                 [] OTHER ->
                      IF cancelled
                      THEN /\ cleanResult' = ZeroClean
                           /\ cleanErr' = "context canceled"
                           /\ pc' = "done"
                           /\ UNCHANGED cmdStarted
                      ELSE /\ cmdStarted' = TRUE
                           /\ pc' = "run"
                           /\ UNCHANGED <<cleanResult, cleanErr>>
    /\ UNCHANGED <<disk, fsVars, tuiVars, cli, errVars, concVars, jbVars, sizeVars, callVars, runVars, cancelled, scanVars, planVars,
                   idx, output, deleteErrors, result, err, bytesDeleted, filesDeleted,
                   captured, histVars>>

\* --------------------------------------------------------------- JetBrains
\* A name is a sequence of characters. The characters of the model, in the
\* order of their codes.
Alphabet == <<".", "0", "1", "2", "3", "4", "5", "6", "7", "8", "9", "I", "T">>
CharCode(c) == CHOOSE i \in 1..Len(Alphabet) : Alphabet[i] = c
IsDigit(c) == c \in {"0", "1", "2", "3", "4", "5", "6", "7", "8", "9"}
IsLetter(c) == c \in {"I", "T"}
DigitVal(c) == CharCode(c) - 2

RECURSIVE NameLess(_, _)
\* a < b as strings: the order os.ReadDir returns the entries in
NameLess(a, b) ==
    IF b = <<>> THEN FALSE
    ELSE IF a = <<>> THEN TRUE
    ELSE IF Head(a) # Head(b) THEN CharCode(Head(a)) < CharCode(Head(b))
    ELSE NameLess(Tail(a), Tail(b))

RECURSIVE ReadDir(_)
\* os.ReadDir: the entries of a directory sorted by name
ReadDir(S) ==
    IF S = {} THEN <<>>
    ELSE LET m == CHOOSE x \in S : \A y \in S : y = x \/ NameLess(x.name, y.name)
         IN <<m>> \o ReadDir(S \ {m})

\* the lengths of the product part in the matches of versionDirPattern,
\* ^([A-Za-z][A-Za-z0-9]*)(\d{4}\.\d+)$, on a name
MatchSplits(name) ==
    {k \in 1..Len(name) :
       /\ IsLetter(name[1])
       /\ \A j \in 1..k : IsLetter(name[j]) \/ IsDigit(name[j])
       /\ Len(name) >= k + 6
       /\ \A j \in (k + 1)..(k + 4) : IsDigit(name[j])
       /\ name[k + 5] = "."
       /\ \A j \in (k + 6)..Len(name) : IsDigit(name[j])}

\* versionDirPattern.FindStringSubmatch(name): the product and the version, or
\* nil. The name has one place where four digits and a dot can start the
\* version, so the match is unique.
FindStringSubmatch(name) ==
    IF MatchSplits(name) = {} THEN [matched |-> FALSE, product |-> <<>>, version |-> <<>>]
    ELSE LET k == CHOOSE k \in MatchSplits(name) : TRUE
         IN [matched |-> TRUE, product |-> SubSeq(name, 1, k),
             version |-> SubSeq(name, k + 1, Len(name))]

RECURSIVE SplitFrom(_, _)
SplitFrom(s, cur) ==
    IF s = <<>> THEN <<cur>>
    ELSE IF Head(s) = "." THEN <<cur>> \o SplitFrom(Tail(s), <<>>)
    ELSE SplitFrom(Tail(s), Append(cur, Head(s)))

\* strings.Split(s, ".")
Split(s) == SplitFrom(s, <<>>)

RECURSIVE AtoiFrom(_, _)
AtoiFrom(s, n) == IF s = <<>> THEN n ELSE AtoiFrom(Tail(s), 10 * n + DigitVal(Head(s)))

\* n, _ = strconv.Atoi(s): the decimal value, 0 when s is not a number
Atoi(s) == IF s = <<>> \/ \E k \in 1..Len(s) : ~IsDigit(s[k]) THEN 0 ELSE AtoiFrom(s, 0)

RECURSIVE CompareParts(_, _, _, _)
\* the loop of compareVersions from segment i on
CompareParts(parts1, parts2, i, maxLen) ==
    IF i > maxLen THEN 0
    ELSE LET n1 == IF i <= Len(parts1) THEN Atoi(parts1[i]) ELSE 0
             n2 == IF i <= Len(parts2) THEN Atoi(parts2[i]) ELSE 0
         IN IF n1 < n2 THEN 0 - 1
            ELSE IF n1 > n2 THEN 1
            ELSE CompareParts(parts1, parts2, i + 1, maxLen)

\* mutant: the versions are compared as strings
compareVersionsAsStrings(v1, v2) ==
    IF NameLess(v1, v2) THEN 0 - 1 ELSE IF NameLess(v2, v1) THEN 1 ELSE 0

\* compareVersions: -1, 0 or 1
compareVersions(v1, v2) ==
    LET parts1 == Split(v1)
        parts2 == Split(v2)
        maxLen == IF Len(parts2) > Len(parts1) THEN Len(parts2) ELSE Len(parts1)
    IN CompareParts(parts1, parts2, 1, maxLen)

RECURSIVE InsertVersion(_, _)
\* one pass of insertion sort with the less function of findRemovableDirs
InsertVersion(s, vd) ==
    IF s = <<>> THEN <<vd>>
    ELSE IF compareVersions(vd.version, Last(s).version) < 0
         THEN Append(InsertVersion(Front(s), vd), Last(s))
    ELSE Append(s, vd)

RECURSIVE SortVersions(_)
\* sort.Slice(versions, ...): slices of fewer than 12 elements are insertion-sorted
SortVersions(s) ==
    IF s = <<>> THEN <<>> ELSE InsertVersion(SortVersions(Front(s)), Last(s))

\* versionDir{product, version, path}; a path is a base path and a name
VersionDir(m, base, name) ==
    [product |-> m.product, version |-> m.version, path |-> [base |-> base, name |-> name]]

\* findRemovableDirs: the outer loop takes the next base path and reads it; a
\* path that does not exist (0) is skipped; after the last path the range over
\* the map starts
NextBasePath ==
    /\ op = "FindRemovableDirs"
    /\ \/ pc = "start"
       \/ pc = "entries" /\ entries = <<>>
    /\ basePathNo' = basePathNo + 1
    /\ IF basePathNo + 1 > Len(jbPaths)
       THEN /\ unvisited' = DOMAIN products
            /\ pc' = "products"
            /\ UNCHANGED entries
       ELSE /\ entries' = IF jbPaths[basePathNo + 1] = 0 THEN <<>>
                          ELSE ReadDir(jbDisk[jbPaths[basePathNo + 1]])
            /\ pc' = "entries"
            /\ UNCHANGED unvisited
    /\ UNCHANGED <<disk, fsVars, tuiVars, cli, errVars, concVars, products, removable, sizeVars, callVars, runVars, cancelled,
                   scanVars, planVars, idx, output, deleteErrors, result, err, fullVars,
                   cmdVars, cleanVars, histVars>>

\* findRemovableDirs: the inner loop on one entry: a directory whose name
\* matches the pattern is appended to the versions of its product
NextEntry ==
    /\ op = "FindRemovableDirs"
    /\ pc = "entries"
    /\ entries # <<>>
    /\ LET entry == Head(entries)
           m == FindStringSubmatch(entry.name)
           vd == VersionDir(m, jbPaths[basePathNo], entry.name)
       IN products' =
            IF ~entry.isDir \/ ~m.matched THEN products
            ELSE IF m.product \in DOMAIN products
                 THEN [products EXCEPT ![m.product] = Append(@, vd)]
            ELSE [pr \in DOMAIN products \cup {m.product} |->
                    IF pr = m.product THEN <<vd>> ELSE products[pr]]
    /\ entries' = Tail(entries)
    /\ UNCHANGED <<disk, fsVars, tuiVars, cli, errVars, concVars, basePathNo, unvisited, removable, sizeVars, callVars,
                   runVars, cancelled, pc, scanVars, planVars, idx, output, deleteErrors,
                   result, err, fullVars, cmdVars, cleanVars, histVars>>

\* findRemovableDirs: the range over the map visits a product, in any order: a
\* product with one version is passed over, the versions of another are sorted
\* and all but the last are marked
NextProduct(pr) ==
    /\ op = "FindRemovableDirs"
    /\ pc = "products"
    /\ pr \in unvisited
    /\ removable' =
         IF Len(products[pr]) <= 1 THEN removable
         ELSE LET versions == SortVersions(products[pr])
              IN removable \o [i \in 1..(Len(versions) - 1) |-> versions[i].path]
    /\ unvisited' = unvisited \ {pr}
    /\ UNCHANGED <<disk, fsVars, tuiVars, cli, errVars, concVars, basePathNo, entries, products, sizeVars, callVars, runVars,
                   cancelled, pc, scanVars, planVars, idx, output, deleteErrors, result,
                   err, fullVars, cmdVars, cleanVars, histVars>>

\* findRemovableDirs returns removable
FindRemovableDirsReturn ==
    /\ op = "FindRemovableDirs"
    /\ pc = "products"
    /\ unvisited = {}
    /\ pc' = "done"
    /\ UNCHANGED <<disk, fsVars, tuiVars, cli, errVars, concVars, jbVars, sizeVars, callVars, runVars, cancelled, scanVars,
                   planVars, idx, output, deleteErrors, result, err, fullVars, cmdVars,
                   cleanVars, histVars>>

\* ------------------------------------------------------------ a second scan
\* mutant: the total and the slices of the first call are still there
ScanAgainKeepsLocals ==
    /\ pc = "done"
    /\ op \in {"CalculateSize", "ListFiles"}
    /\ callNo = 1
    /\ callNo' = 2
    /\ prev' = [result |-> scanResult, err |-> scanResult.err, attempted |-> <<>>, sorted |-> <<>>]
    /\ pc' = "start"
    /\ walker' = <<>>
    /\ scanResult' = NoScanResult
    /\ UNCHANGED <<disk, fsVars, tuiVars, cli, errVars, concVars, jbVars, total, firstErr, files, warnings, callVars, disk0,
                   cancelledAt, cancelled, planVars, idx, output, deleteErrors, result, err,
                   fullVars, cmdVars, cleanVars, histVars>>

\* The caller of CalculateSize or ListFiles calls it again with the same paths
\* on the tree as it is: total, firstErr, files and warnings are variables of
\* the function, new in every call.
ScanAgain ==
    /\ pc = "done"
    /\ op \in {"CalculateSize", "ListFiles"}
    /\ callNo = 1
    /\ callNo' = 2
    /\ prev' = [result |-> scanResult, err |-> scanResult.err, attempted |-> <<>>, sorted |-> <<>>]
    /\ pc' = "start"
    /\ walker' = <<>>
    /\ total' = 0
    /\ firstErr' = "nil"
    /\ files' = <<>>
    /\ warnings' = <<>>
    /\ scanResult' = NoScanResult
    /\ UNCHANGED <<disk, fsVars, tuiVars, cli, errVars, concVars, jbVars, callVars, disk0, cancelledAt, cancelled, planVars, idx,
                   output, deleteErrors, result, err, fullVars, cmdVars, cleanVars, histVars>>

\* ------------------------------------------------------ the interactive model
\* len(m.providers)
NumProviders == Cardinality(DOMAIN providers)

\* providerItem{name: name}, the item newModel makes
NewItem ==
    [provider |-> FALSE, available |-> FALSE, overLimit |-> FALSE, errMsg |-> "",
     cleanResult |-> "nil", BytesCleaned |-> 0, cleanErr |-> "nil"]

\* the items scanProviderCmd can return: the provider did not load, it is not
\* available, its size scan failed (available stays true), or it was scanned
ScanItems ==
    {[NewItem EXCEPT !.errMsg = "load error"],
     [NewItem EXCEPT !.provider = TRUE, !.errMsg = "unavailable"],
     [NewItem EXCEPT !.provider = TRUE, !.available = TRUE, !.errMsg = "scan error"],
     [NewItem EXCEPT !.provider = TRUE, !.available = TRUE],
     [NewItem EXCEPT !.provider = TRUE, !.available = TRUE, !.overLimit = TRUE]}

\* the keys: those the handlers name, and "x" for any other
Keys ==
    {"q", "esc", "ctrl+c", "j", "down", "k", "up", " ", "a", "n", "N", "o", "enter",
     "y", "Y", "f", "F", "s", "S", "x"}

\* the widths a window can be given
Widths == {5, 80}

\* mutant: an item can be selected whether its provider is available or not
AvailableOrNot(i) == TRUE

\* p.available, the test of Space, "a" and "o"
Available(i) == providers[i].available

\* mutant: every index counts as selected
IsSelectedAlways(i) == TRUE

\* _, ok := m.selected[i]
IsSelected(i) == i \in selected

RECURSIVE CleanNextIdx(_)
\* the loop of cleanNext: the first selected index above i, or len(m.providers)
CleanNextIdx(i) ==
    IF i + 1 >= NumProviders THEN i + 1
    ELSE IF IsSelected(i + 1) THEN i + 1
    ELSE CleanNextIdx(i + 1)

\* mutant: past the last index the state is left as it is
cleanNextNeverDone(i, st, rest) ==
    LET n == CleanNextIdx(i)
        cmd == [idx |-> n, smart |-> smartMode]
    IN /\ cleanIdx' = n
       /\ IF n >= NumProviders
          THEN /\ state' = st
               /\ cleaning' = rest
               /\ UNCHANGED cleanCmds
          ELSE /\ state' = st
               /\ cleaning' = rest \cup {cmd}
               /\ cleanCmds' = Append(cleanCmds, cmd)

\* model.cleanNext, called with m.cleanIdx = i and m.state = st while the
\* commands of rest are still running: the state moves to Done, or the clean
\* command of the next selected provider is issued with the mode of this moment
cleanNext(i, st, rest) ==
    LET n == CleanNextIdx(i)
        cmd == [idx |-> n, smart |-> smartMode]
    IN /\ cleanIdx' = n
       /\ IF n >= NumProviders
          THEN /\ state' = "Done"
               /\ cleaning' = rest
               /\ UNCHANGED cleanCmds
          ELSE /\ state' = st
               /\ cleaning' = rest \cup {cmd}
               /\ cleanCmds' = Append(cleanCmds, cmd)

\* model.handleSelectionKey
handleSelectionKey(key) ==
    /\ CASE key \in {"q", "esc", "ctrl+c"} ->
              /\ quitting' = TRUE
              /\ quitSent' = TRUE
              /\ UNCHANGED <<state, selected, cursor>>
         [] key \in {"j", "down"} ->
              /\ cursor' = IF cursor < NumProviders - 1 THEN cursor + 1 ELSE cursor
              /\ UNCHANGED <<state, selected, quitting, quitSent>>
         [] key \in {"k", "up"} ->
              /\ cursor' = IF cursor > 0 THEN cursor - 1 ELSE cursor
              /\ UNCHANGED <<state, selected, quitting, quitSent>>
         [] key = " " ->
              /\ selected' = IF Available(cursor)
                             THEN (IF cursor \in selected THEN selected \ {cursor}
                                   ELSE selected \cup {cursor})
                             ELSE selected
              /\ UNCHANGED <<state, cursor, quitting, quitSent>>
         [] key = "a" ->
              /\ selected' = selected \cup {i \in DOMAIN providers : Available(i)}
              /\ UNCHANGED <<state, cursor, quitting, quitSent>>
         [] key = "n" ->
              /\ selected' = {}
              /\ UNCHANGED <<state, cursor, quitting, quitSent>>
         [] key = "o" ->
              /\ selected' = {i \in DOMAIN providers : Available(i) /\ providers[i].overLimit}
              /\ UNCHANGED <<state, cursor, quitting, quitSent>>
         [] key = "enter" ->
              /\ state' = IF selected # {} THEN "Confirmation" ELSE state
              /\ UNCHANGED <<selected, cursor, quitting, quitSent>>
         [] OTHER -> UNCHANGED <<state, selected, cursor, quitting, quitSent>>
    /\ UNCHANGED <<providers, cleanIdx, smartMode, totalFreed, width, scanning, cleaning, running,
                   cleanCmds, cleanCalls>>

\* model.handleConfirmationKey
handleConfirmationKey(key) ==
    /\ CASE key \in {"y", "Y"} ->
              /\ cleanNext(0 - 1, "Cleaning", cleaning)
              /\ UNCHANGED smartMode
         [] key \in {"n", "N", "esc", "ctrl+c"} ->
              /\ state' = "Selection"
              /\ UNCHANGED <<smartMode, cleanIdx, cleaning, cleanCmds>>
         [] key \in {"f", "F"} ->
              /\ smartMode' = FALSE
              /\ UNCHANGED <<state, cleanIdx, cleaning, cleanCmds>>
         [] key \in {"s", "S"} ->
              /\ smartMode' = TRUE
              /\ UNCHANGED <<state, cleanIdx, cleaning, cleanCmds>>
         [] OTHER -> UNCHANGED <<state, smartMode, cleanIdx, cleaning, cleanCmds>>
    /\ UNCHANGED <<providers, selected, cursor, quitting, totalFreed, width, scanning, quitSent,
                   running, cleanCalls>>

\* model.handleDoneKey
handleDoneKey(key) ==
    /\ IF key \in {"enter", "q", "esc", "ctrl+c"}
       THEN quitting' = TRUE /\ quitSent' = TRUE
       ELSE UNCHANGED <<quitting, quitSent>>
    /\ UNCHANGED <<state, providers, selected, cursor, cleanIdx, smartMode, totalFreed, width,
                   scanning, cleaning, running, cleanCmds, cleanCalls>>

\* mutant: a key pressed while Cleaning is handled as in Confirmation
handleKeyWhileCleaning(key) ==
    /\ op = "Interactive"
    /\ running
    /\ CASE state = "Selection" -> handleSelectionKey(key)
         [] state = "Confirmation" -> handleConfirmationKey(key)
         [] state = "Done" -> handleDoneKey(key)
         [] OTHER -> handleConfirmationKey(key)
    /\ UNCHANGED engineVars

\* Update on a tea.KeyMsg: model.handleKey; a key pressed while Cleaning changes
\* nothing
handleKey(key) ==
    /\ op = "Interactive"
    /\ running
    /\ CASE state = "Selection" -> handleSelectionKey(key)
         [] state = "Confirmation" -> handleConfirmationKey(key)
         [] state = "Done" -> handleDoneKey(key)
         [] OTHER -> UNCHANGED tuiVars
    /\ UNCHANGED engineVars

\* Update on a tea.WindowSizeMsg
UpdateWindowSizeMsg(w) ==
    /\ op = "Interactive"
    /\ running
    /\ width' = w
    /\ UNCHANGED <<state, providers, selected, cursor, cleanIdx, smartMode, quitting, totalFreed,
                   scanning, cleaning, quitSent, running, cleanCmds, cleanCalls>>
    /\ UNCHANGED engineVars

\* scanProviderCmd(i) has run and Update gets its scanResultMsg
UpdateScanResultMsg(i) ==
    /\ op = "Interactive"
    /\ running
    /\ i \in scanning
    /\ \E item \in ScanItems : providers' = [providers EXCEPT ![i] = item]
    /\ scanning' = scanning \ {i}
    /\ UNCHANGED <<state, selected, cursor, cleanIdx, smartMode, quitting, totalFreed, width,
                   cleaning, quitSent, running, cleanCmds, cleanCalls>>
    /\ UNCHANGED engineVars

\* the cleanResultMsg of a command: "provider not loaded" without a call of
\* Clean, or what Clean returned
CleanResultMsgs(cmd) ==
    IF ~providers[cmd.idx].provider
    THEN {[idx |-> cmd.idx, err |-> "provider not loaded", BytesCleaned |-> 0, called |-> FALSE]}
    ELSE {[idx |-> cmd.idx, err |-> e, BytesCleaned |-> b, called |-> TRUE] :
            e \in {"nil", "clean error"}, b \in {0, 1}}

\* mutant: the bytes of a failed clean are added as well
FreedAlways(msg) == msg.BytesCleaned

\* what a cleanResultMsg adds to m.totalFreed
Freed(msg) == IF msg.err = "nil" THEN msg.BytesCleaned ELSE 0

\* cleanProviderCmd has run and Update gets its cleanResultMsg
UpdateCleanResultMsg(cmd) ==
    /\ op = "Interactive"
    /\ running
    /\ cmd \in cleaning
    /\ \E msg \in CleanResultMsgs(cmd) :
          /\ providers' = [providers EXCEPT ![msg.idx].cleanResult = "set",
                                            ![msg.idx].BytesCleaned = msg.BytesCleaned,
                                            ![msg.idx].cleanErr = msg.err]
          /\ totalFreed' = totalFreed + Freed(msg)
          /\ cleanCalls' = IF msg.called THEN Append(cleanCalls, msg.idx) ELSE cleanCalls
          /\ cleanNext(cleanIdx, state, cleaning \ {cmd})
    /\ UNCHANGED <<selected, cursor, smartMode, quitting, width, scanning, quitSent, running>>
    /\ UNCHANGED engineVars

\* the process gets SIGINT or SIGTERM: the goroutine of RunInteractiveWithLoader
\* sends tea.Quit
Interrupt ==
    /\ op = "Interactive"
    /\ running
    /\ ~quitSent
    /\ quitSent' = TRUE
    /\ UNCHANGED <<state, providers, selected, cursor, cleanIdx, smartMode, quitting, totalFreed,
                   width, scanning, cleaning, running, cleanCmds, cleanCalls>>
    /\ UNCHANGED engineVars

\* the program gets the tea.QuitMsg and its event loop ends
UpdateQuitMsg ==
    /\ op = "Interactive"
    /\ running
    /\ quitSent
    /\ running' = FALSE
    /\ UNCHANGED <<state, providers, selected, cursor, cleanIdx, smartMode, quitting, totalFreed,
                   width, scanning, cleaning, quitSent, cleanCmds, cleanCalls>>
    /\ UNCHANGED engineVars
\* ---------------------------------------------------------------- initial
\* n files on disk, paths 1..n, any sizes and modification times
Disks ==
    UNION {[1..n -> [Size : FileSizes, ModTime : ModTimes]] : n \in 0..MaxFiles}

Policies == [MaxSize : 0..MaxLimit, MaxAge : 0..(MaxTime - 1), DryRun : BOOLEAN]

NoPrev == [result |-> ZeroResult, err |-> "nil", attempted |-> <<>>, sorted |-> <<>>]

\* the locals of a call as it starts
CallStarts ==
    /\ cancelled = FALSE
    /\ cancelledAt = "never"
    /\ pc = "start"
    /\ walker = <<>>
    /\ total = 0
    /\ firstErr = "nil"
    /\ scanResult = NoScanResult
    /\ files = <<>>
    /\ warnings = <<>>
    /\ cutoff = 0
    /\ targetSize = 0
    /\ remainingSize = 0
    /\ remaining0 = 0
    /\ ageMarked = <<>>
    /\ toDelete = <<>>
    /\ idx = 0
    /\ output = <<>>
    /\ deleteErrors = <<>>
    /\ result = ZeroResult
    /\ err = "nil"
    /\ currentSize = 0
    /\ bytesDeleted = 0
    /\ filesDeleted = 0
    /\ cmdParsed = FALSE
    /\ cmdStarted = FALSE
    /\ captured = [stdout |-> <<>>, stderr |-> <<>>, exit |-> "none"]
    /\ probes = 0
    /\ provider = "none"
    /\ cleanResult = ZeroClean
    /\ cleanErr = "nil"
    /\ basePathNo = 0
    /\ entries = <<>>
    /\ products = <<>>
    /\ unvisited = {}
    /\ removable = <<>>
    /\ classified = <<>>
    /\ removed = <<>>
    /\ attempted = <<>>

\* two disjoint roots holding regular files only, every directory readable
PlainRoots ==
    /\ entryType = [p \in DOMAIN disk |-> "file"]
    /\ dirMode = [r \in Roots |-> "ok"]
    /\ roots = <<"r1", "r2">>

\* no clean command
NoCli == cli = [pc |-> "idle"]

\* no interactive session
NoTui ==
    /\ state = "Selection"
    /\ providers = <<>>
    /\ selected = {}
    /\ cursor = 0
    /\ cleanIdx = 0
    /\ smartMode = TRUE
    /\ quitting = FALSE
    /\ totalFreed = 0
    /\ width = 80
    /\ scanning = {}
    /\ cleaning = {}
    /\ quitSent = FALSE
    /\ running = FALSE
    /\ cleanCmds = <<>>
    /\ cleanCalls = <<>>

\* no concurrent calls
NoCalls == call = <<>>

\* no docker on the machine
NoDocker == docker = [bin |-> FALSE, daemon |-> FALSE]

\* no JetBrains directories on the machine
NoJetBrains == jbDisk = <<{}, {}>> /\ jbPaths = <<>>

\* a direct call of cache.Trim
Init ==
    /\ disk \in Disks
    /\ disk0 = disk
    /\ PlainRoots
    /\ NoDocker
    /\ NoJetBrains
    /\ NoCalls
    /\ NoTui
    /\ NoCli
    /\ op = "Trim"
    /\ opts \in Policies
    /\ cleanCmd = "valid"
    /\ callNo = 1
    /\ prev = NoPrev
    /\ CallStarts

TrimNext ==
    \/ ListFilesStart
    \/ \E i \in 1..MaxRoots : WalkFile(i)
    \/ TrimNoFiles
    \/ TrimPlanStep
    \/ TrimInterrupted
    \/ TrimWouldDelete
    \/ TrimRemove
    \/ TrimRemoveFails
    \/ TrimReturn
    \/ Cancel

Next == TrimNext

Spec == Init /\ [][Next]_vars

\* a provider's Clean in smart or full mode
InitClean ==
    /\ disk \in Disks
    /\ disk0 = disk
    /\ PlainRoots
    /\ NoDocker
    /\ NoJetBrains
    /\ NoCalls
    /\ NoTui
    /\ NoCli
    /\ op \in {"SmartClean", "FileFull", "CommandFull"}
    /\ opts \in Policies
    /\ cleanCmd \in (IF op = "CommandFull" THEN {"valid", "invalid", "empty"} ELSE {"valid"})
    /\ callNo = 1
    /\ prev = NoPrev
    /\ CallStarts

NextClean ==
    \/ ListFilesStart
    \/ \E i \in 1..MaxRoots : WalkFile(i)
    \/ TrimNoFiles
    \/ TrimPlanStep
    \/ TrimInterrupted
    \/ TrimWouldDelete
    \/ TrimRemove
    \/ TrimRemoveFails
    \/ TrimReturn
    \/ Cancel
    \/ FileSmartCleanReturn
    \/ CommandSmartCleanReturn
    \/ FileFullStart
    \/ FileFullSort
    \/ FileFullInterrupted
    \/ FileFullWouldDelete
    \/ FileFullRemove
    \/ FileFullRemoveFails
    \/ FileFullReturn
    \/ CommandFullStart
    \/ CommandRun

SpecClean == InitClean /\ [][NextClean]_vars

\* a dry run of Trim, then a real run of Trim on the files the dry run saw
InitParity ==
    /\ Init
    /\ opts.DryRun

NextParity ==
    \/ TrimNext
    \/ TrimAgain(FALSE)

SpecParity == InitParity /\ [][NextParity]_vars


\* ------------------------------------------------------ the scanner by itself
\* the names a root of a scan can have: the parent of both directories, the
\* directories, and a path that does not exist
RootArgs == {"top", "r1", "r2", "gone"}

\* the paths arguments of a scan: a root may be listed twice or lie inside another
RootLists == UNION {[1..n -> RootArgs] : n \in 1..MaxRoots}

\* entries of any type; r1 can always be read, r2 may be listable only or unreadable
MixedEntries ==
    /\ entryType \in [DOMAIN disk -> {"file", "symlink", "dir"}]
    /\ dirMode \in {[r \in Roots |-> IF r = "r1" THEN "ok" ELSE m] :
                      m \in {"ok", "nostat", "noread"}}

\* n entries on disk, of either size, all modified now
ScanDisks == UNION {[1..n -> [Size : FileSizes, ModTime : {Now}]] : n \in 0..MaxFiles}

\* a call of cache.CalculateSize or of cache.ListFiles
InitScan ==
    /\ disk \in ScanDisks
    /\ disk0 = disk
    /\ MixedEntries
    /\ NoDocker
    /\ NoJetBrains
    /\ NoCalls
    /\ NoTui
    /\ NoCli
    /\ roots \in RootLists
    /\ op \in {"CalculateSize", "ListFiles"}
    /\ opts = [MaxSize |-> 0, MaxAge |-> 0, DryRun |-> TRUE]
    /\ cleanCmd = "valid"
    /\ callNo = 1
    /\ prev = NoPrev
    /\ CallStarts

NextScan ==
    \/ CalculateSizeStart
    \/ ListFilesStart
    \/ \E i \in 1..MaxRoots : WalkSize(i)
    \/ \E i \in 1..MaxRoots : WalkFile(i)
    \/ CalculateSizeReturn
    \/ ListFilesReturn

SpecScan == InitScan /\ [][NextScan]_vars

\* ----------------------------------------- a provider over entries of any type
\* n entries of one byte each, modified at the start of time or now
UnitDisks == UNION {[1..n -> [Size : {1}, ModTime : {1, Now}]] : n \in 0..MaxFiles}

\* a provider's smart clean, or its size scan, of two roots holding entries of
\* any type
InitMixed ==
    /\ disk \in UnitDisks
    /\ disk0 = disk
    /\ MixedEntries
    /\ NoDocker
    /\ NoJetBrains
    /\ NoCalls
    /\ NoTui
    /\ NoCli
    /\ roots = <<"r1", "r2">>
    /\ op \in {"SmartClean", "CalculateSize"}
    /\ opts \in (IF op = "SmartClean" THEN Policies
                 ELSE {[MaxSize |-> 0, MaxAge |-> 0, DryRun |-> TRUE]})
    /\ cleanCmd = "valid"
    /\ callNo = 1
    /\ prev = NoPrev
    /\ CallStarts

NextMixed ==
    \/ CalculateSizeStart
    \/ \E i \in 1..MaxRoots : WalkSize(i)
    \/ CalculateSizeReturn
    \/ ListFilesStart
    \/ \E i \in 1..MaxRoots : WalkFile(i)
    \/ TrimNoFiles
    \/ TrimPlanStep
    \/ TrimInterrupted
    \/ TrimWouldDelete
    \/ TrimRemove
    \/ TrimRemoveFails
    \/ TrimReturn
    \/ Cancel
    \/ FileSmartCleanReturn
    \/ CommandSmartCleanReturn

SpecMixed == InitMixed /\ [][NextMixed]_vars

\* ------------------------------------------------------- the Docker provider
\* the binary may be missing, or present with the daemon up or down
DockerStates == {d \in [bin : BOOLEAN, daemon : BOOLEAN] : d.daemon => d.bin}

\* Clean in either mode, or CurrentSize, on the Docker provider
InitDocker ==
    /\ disk \in Disks
    /\ disk0 = disk
    /\ PlainRoots
    /\ docker \in DockerStates
    /\ NoJetBrains
    /\ NoCalls
    /\ NoTui
    /\ NoCli
    /\ op \in {"DockerSmart", "DockerFull", "DockerCurrentSize"}
    /\ opts \in {o \in Policies : o.MaxAge = 0 /\ (op = "DockerCurrentSize" => o.DryRun)}
    /\ cleanCmd \in (IF op = "DockerFull" THEN {"valid", "invalid", "empty"} ELSE {"valid"})
    /\ callNo = 1
    /\ prev = NoPrev
    /\ CallStarts

NextDocker ==
    \/ DockerClean
    \/ CommandRun
    \/ Cancel
    \/ CalculateSizeStart
    \/ \E i \in 1..MaxRoots : WalkSize(i)
    \/ CalculateSizeReturn

SpecDocker == InitDocker /\ [][NextDocker]_vars

\* ---------------------------------------------------- the JetBrains provider
\* The entries a base path can hold: the name, whether it is a directory, and
\* for the reader what the name stands for (the model reads name and isDir only).
Entry(name, isDir, product, year, minor) ==
    [name |-> name, isDir |-> isDir, product |-> product, year |-> year, minor |-> minor]

EntryNames ==
    {Entry(<<"T", "2", "0", "2", "3", ".", "1">>, TRUE, "T", 2023, 1),
     Entry(<<"T", "2", "0", "2", "3", ".", "3">>, TRUE, "T", 2023, 3),
     Entry(<<"T", "2", "0", "2", "3", ".", "1", "0">>, TRUE, "T", 2023, 10),
     Entry(<<"I", "2", "0", "2", "3", ".", "9">>, TRUE, "I", 2023, 9),
     Entry(<<"I", "2", "0", "2", "4", ".", "2">>, TRUE, "I", 2024, 2),
     Entry(<<"T", "1", "2", "0", "2", "3", ".", "2">>, TRUE, "T1", 2023, 2),
     Entry(<<"T", "2", "0", "2", "4", ".", "1">>, FALSE, "none", 0, 0),
     Entry(<<"T", "2", "3", ".", "1">>, TRUE, "none", 0, 0)}

\* a directory holds at most MaxFiles of them
Directories == {S \in SUBSET EntryNames : Cardinality(S) <= MaxFiles}

\* findRemovableDirs over one base path, over two, or over a missing path and one
InitJetBrains ==
    /\ disk = <<>>
    /\ disk0 = disk
    /\ PlainRoots
    /\ NoDocker
    /\ NoCalls
    /\ NoTui
    /\ NoCli
    /\ jbPaths \in {<<1>>, <<1, 2>>, <<0, 1>>}
    /\ jbDisk \in {d \in [1..2 -> Directories] : 2 \notin Range(jbPaths) => d[2] = {}}
    /\ op = "FindRemovableDirs"
    /\ opts = [MaxSize |-> 0, MaxAge |-> 0, DryRun |-> TRUE]
    /\ cleanCmd = "valid"
    /\ callNo = 1
    /\ prev = NoPrev
    /\ CallStarts

NextJetBrains ==
    \/ NextBasePath
    \/ NextEntry
    \/ \E pr \in unvisited : NextProduct(pr)
    \/ FindRemovableDirsReturn

SpecJetBrains == InitJetBrains /\ [][NextJetBrains]_vars

\* ------------------------------------------- the command provider's full clean
\* CommandProvider.fullClean by itself: any disk, any policy, any command string
InitCommand ==
    /\ InitClean
    /\ op = "CommandFull"

NextCommand ==
    \/ CommandFullStart
    \/ CommandRun
    \/ Cancel

SpecCommand == InitCommand /\ [][NextCommand]_vars

\* ---------------------------------------------- the file provider's full clean
\* FileProvider.fullClean by itself: any disk, any policy
InitFileFull ==
    /\ InitClean
    /\ op = "FileFull"

NextFileFull ==
    \/ FileFullStart
    \/ \E i \in 1..MaxRoots : WalkFile(i)
    \/ FileFullSort
    \/ FileFullInterrupted
    \/ FileFullWouldDelete
    \/ FileFullRemove
    \/ FileFullRemoveFails
    \/ FileFullReturn
    \/ Cancel

SpecFileFull == InitFileFull /\ [][NextFileFull]_vars

\* ------------------------------------------------------- the error classifier
\* direct calls of ClassifyError, as the package's tests make them
InitClassify ==
    /\ disk = <<>>
    /\ disk0 = disk
    /\ PlainRoots
    /\ NoDocker
    /\ NoJetBrains
    /\ NoCalls
    /\ NoTui
    /\ NoCli
    /\ op = "ClassifyError"
    /\ opts = [MaxSize |-> 0, MaxAge |-> 0, DryRun |-> FALSE]
    /\ cleanCmd = "valid"
    /\ callNo = 1
    /\ prev = NoPrev
    /\ CallStarts

NextClassify == ClassifyErrorCall

SpecClassify == InitClassify /\ [][NextClassify]_vars

\* ------------------------------------------------ Trim over entries of any type
\* the roots of such a call: the two directories, or a missing path and r2
TrimRoots == {<<"r1", "r2">>, <<"gone", "r2">>}

\* a direct call of cache.Trim on roots that hold entries of any type
InitTrimMixed ==
    /\ disk \in UnitDisks
    /\ disk0 = disk
    /\ MixedEntries
    /\ NoDocker
    /\ NoJetBrains
    /\ NoCalls
    /\ NoTui
    /\ NoCli
    /\ roots \in TrimRoots
    /\ op = "Trim"
    /\ opts \in Policies
    /\ cleanCmd = "valid"
    /\ callNo = 1
    /\ prev = NoPrev
    /\ CallStarts

SpecTrimMixed == InitTrimMixed /\ [][TrimNext]_vars

\* ------------------------------------------------- the scanner, called twice
InitRepeat == InitScan

NextRepeat ==
    \/ NextScan
    \/ ScanAgain

SpecRepeat == InitRepeat /\ [][NextRepeat]_vars

\* ------------------------------------------------- two concurrent Trim calls
\* the options of a concurrent call: every file that is not new is too old,
\* and there is room for all files or for none; the first call is a real run,
\* the second may be a dry run
ConcPolicies == [MaxSize : {0, MaxLimit}, MaxAge : {0}, DryRun : BOOLEAN]

InitConcurrent ==
    /\ disk \in UnitDisks
    /\ disk0 = disk
    /\ PlainRoots
    /\ NoDocker
    /\ NoJetBrains
    /\ NoTui
    /\ NoCli
    /\ op = "ConcurrentTrim"
    /\ opts = [MaxSize |-> 0, MaxAge |-> 0, DryRun |-> FALSE]
    /\ cleanCmd = "valid"
    /\ callNo = 1
    /\ prev = NoPrev
    /\ CallStarts
    /\ \E o1, o2 \in ConcPolicies :
          /\ ~o1.DryRun
          /\ call = [c \in Calls |-> CallLocals(IF c = 1 THEN o1 ELSE o2)]

NextConcurrent ==
    \E c \in Calls :
        \/ ConcListFilesStart(c)
        \/ ConcWalk(c)
        \/ ConcPlan(c)
        \/ ConcCancel(c)
        \/ ConcDelete(c)
        \/ ConcReturn(c)

SpecConcurrent == InitConcurrent /\ [][NextConcurrent]_vars

\* ------------------------------------------------------ the interactive model
\* newModel and Init: one to MaxProviders enabled providers, smart or full mode,
\* a scan command issued for every provider
InitInteractive ==
    /\ disk = <<>>
    /\ disk0 = disk
    /\ PlainRoots
    /\ NoDocker
    /\ NoJetBrains
    /\ NoCalls
    /\ NoCli
    /\ op = "Interactive"
    /\ opts = [MaxSize |-> 0, MaxAge |-> 0, DryRun |-> FALSE]
    /\ cleanCmd = "valid"
    /\ callNo = 1
    /\ prev = NoPrev
    /\ CallStarts
    /\ state = "Selection"
    /\ \E n \in 1..MaxProviders : providers = [i \in 0..(n - 1) |-> NewItem]
    /\ selected = {}
    /\ cursor = 0
    /\ cleanIdx = 0
    /\ smartMode \in BOOLEAN
    /\ quitting = FALSE
    /\ totalFreed = 0
    /\ width = 80
    /\ scanning = DOMAIN providers
    /\ cleaning = {}
    /\ quitSent = FALSE
    /\ running = TRUE
    /\ cleanCmds = <<>>
    /\ cleanCalls = <<>>

NextInteractive ==
    \/ \E key \in Keys : handleKey(key)
    \/ \E w \in Widths : UpdateWindowSizeMsg(w)
    \/ \E i \in DOMAIN providers : UpdateScanResultMsg(i)
    \/ \E cmd \in cleaning : UpdateCleanResultMsg(cmd)
    \/ Interrupt
    \/ UpdateQuitMsg

SpecInteractive == InitInteractive /\ [][NextInteractive]_vars

\* the result message of a clean command that was started is delivered as long
\* as the program runs: the command is a goroutine of its own, and Clean
\* returns
SpecInteractiveLive ==
    /\ InitInteractive
    /\ [][NextInteractive]_vars
    /\ WF_vars(\E cmd \in cleaning : UpdateCleanResultMsg(cmd))

\* ---------------------------------------------------------- the clean command
\* runCleanWithLoader after resolveProviders: one to MaxProviders names, each
\* loading or not and available or not, the flags, and the standard input
InitCleanCmd ==
    /\ disk = <<>>
    /\ disk0 = disk
    /\ PlainRoots
    /\ NoDocker
    /\ NoJetBrains
    /\ NoCalls
    /\ NoTui
    /\ op = "CleanCmd"
    /\ opts = [MaxSize |-> 0, MaxAge |-> 0, DryRun |-> FALSE]
    /\ cleanCmd = "valid"
    /\ callNo = 1
    /\ prev = NoPrev
    /\ CallStarts
    /\ \E n \in 1..MaxProviders, in \in Stdins, force \in BOOLEAN, dryRun \in BOOLEAN :
          \E names \in [1..n -> {"ok", "load error", "unavailable"}] :
             cli = [pc |-> "start", names |-> names, providers |-> <<>>, force |-> force,
                    dryRun |-> dryRun, stdin |-> in, cancelled |-> FALSE, idx |-> 1,
                    totalCleaned |-> 0, errors |-> <<>>, calls |-> <<>>, aborted |-> FALSE,
                    ret |-> NoReturn]

NextCleanCmd ==
    \/ runCleanWithLoader
    \/ CleanSignal
    \/ executeCleanNext
    \/ executeCleanReturn

SpecCleanCmd == InitCleanCmd /\ [][NextCleanCmd]_vars

\* ---------------------------------------- Trim on roots that overlap or repeat
\* the roots of such a call: two directories, one directory twice, or a
\* directory and its parent
OverlapRoots == {<<"r1", "r2">>, <<"r1", "r1">>, <<"top", "r1">>}

\* a direct call of cache.Trim on readable directories of regular files
InitTrimOverlap ==
    /\ disk \in UnitDisks
    /\ disk0 = disk
    /\ entryType = [p \in DOMAIN disk |-> "file"]
    /\ dirMode = [r \in Roots |-> "ok"]
    /\ roots \in OverlapRoots
    /\ NoDocker
    /\ NoJetBrains
    /\ NoCalls
    /\ NoTui
    /\ NoCli
    /\ op = "Trim"
    /\ opts \in Policies
    /\ cleanCmd = "valid"
    /\ callNo = 1
    /\ prev = NoPrev
    /\ CallStarts

SpecTrimOverlap == InitTrimOverlap /\ [][TrimNext]_vars

\* ------------------------------------------------ a real run of Trim, repeated
\* a real run of Trim on files of one byte, old or new, then Trim again with
\* the same policy on what is left
InitTrimTwice ==
    /\ disk \in UnitDisks
    /\ disk0 = disk
    /\ PlainRoots
    /\ NoDocker
    /\ NoJetBrains
    /\ NoCalls
    /\ NoTui
    /\ NoCli
    /\ op = "Trim"
    /\ opts \in [MaxSize : 0..MaxLimit, MaxAge : 0..(MaxTime - 1), DryRun : {FALSE}]
    /\ cleanCmd = "valid"
    /\ callNo = 1
    /\ prev = NoPrev
    /\ CallStarts

\* the steps of a real run, and the second call
NextTrimTwice ==
    \/ ListFilesStart
    \/ \E i \in 1..MaxRoots : WalkFile(i)
    \/ TrimNoFiles
    \/ TrimPlanStep
    \/ TrimInterrupted
    \/ TrimRemove
    \/ TrimRemoveFails
    \/ TrimReturn
    \/ Cancel
    \/ TrimAgain(FALSE)

SpecTrimTwice == InitTrimTwice /\ [][NextTrimTwice]_vars
\* ------------------------------------------------------------------ claims
PathsOf(s) == {s[i].Path : i \in 1..Len(s)}

\* Trim has made its plan (the sort and both phases are done)
Planned == op \in {"Trim", "SmartClean"} /\ idx >= 1

\* the entries the size phase appended to toDelete
SizeMarked == SubSeq(toDelete, Len(ageMarked) + 1, Len(toDelete))

\* the enumerated files that are not older than the cutoff, in enumeration order
Candidates == SelectSeq(files, LAMBDA f : f.ModTime >= cutoff)

\* the entries of the deletion loop whose removal succeeded, and those whose
\* removal failed
Succeeded == SelectSeq(attempted, LAMBDA f : f.Path \in Range(removed))
Failed == SelectSeq(attempted, LAMBDA f : f.Path \notin Range(removed))

\* the entries the call counts in FreedBytes and DeletedCount
Accounted == IF opts.DryRun THEN attempted ELSE Succeeded

RECURSIVE Interleavings(_, _)
Interleavings(a, b) ==
    IF a = <<>> THEN {b}
    ELSE IF b = <<>> THEN {a}
    ELSE {<<Head(a)>> \o s : s \in Interleavings(Tail(a), b)}
           \cup {<<Head(b)>> \o s : s \in Interleavings(a, Tail(b))}

\* the orders in which the two walkers can append the files of d
WalkOrders(d) ==
    Interleavings(SetToSeq({p \in DOMAIN d : RootOf(p) = "r1"}),
                  SetToSeq({p \in DOMAIN d : RootOf(p) = "r2"}))

\* the paths Trim marks when the walkers append the files of disk0 in order q
MarkedPathsFor(q) ==
    PathsOf(TrimPlan(SortByModTime(PathsToInfo(disk0, q)),
                     Cutoff(opts.MaxAge), TargetSize(opts.MaxSize)))

\* no two files that are not older than the cutoff have the same ModTime
NoTiedCandidates ==
    \A p1, p2 \in DOMAIN disk0 :
        (p1 # p2 /\ disk0[p1].ModTime = disk0[p2].ModTime)
            => disk0[p1].ModTime < Now - opts.MaxAge

\* no two files have the same ModTime
DistinctModTimes ==
    \A p1, p2 \in DOMAIN disk0 : p1 # p2 => disk0[p1].ModTime # disk0[p2].ModTime

\* C1: with cutoff = now - MaxAge, the age phase marks a file if and only if
\* its modification time is strictly before the cutoff, whatever MaxSize and the
\* total size are; the files it marks are the first entries of toDelete.
C1_AgePhaseMarksExactlyTheOld ==
    Planned =>
        /\ cutoff = Now - opts.MaxAge
        /\ \A i \in 1..Len(files) :
              (files[i] \in Range(ageMarked)) <=> (files[i].ModTime < Now - opts.MaxAge)
        /\ Len(ageMarked) <= Len(toDelete)
        /\ SubSeq(toDelete, 1, Len(ageMarked)) = ageMarked

\* C1 witness: an old file is marked, a newer one is not, and the size phase
\* had nothing to do
C1_Witness ==
    /\ Planned
    /\ ageMarked # <<>>
    /\ Len(ageMarked) < Len(files)
    /\ remaining0 <= targetSize
    /\ toDelete = ageMarked

\* C2: target = floor(0.9 * MaxSize); remaining starts as the size of the files
\* the age phase left; if it exceeds the target the unmarked files are marked
\* oldest first until remaining <= target and no further, otherwise none of
\* them is marked; at the end remaining <= target or every file is marked.
C2_SizePhaseStopsAtTarget ==
    Planned =>
        /\ targetSize * 10 <= opts.MaxSize * 9
        /\ opts.MaxSize * 9 < (targetSize + 1) * 10
        /\ remaining0 = SumSize(Candidates)
        /\ \A i, j \in 1..Len(Candidates) :
              i < j => Candidates[i].ModTime <= Candidates[j].ModTime
        /\ Len(SizeMarked) <= Len(Candidates)
        /\ SizeMarked = SubSeq(Candidates, 1, Len(SizeMarked))
        /\ remainingSize = remaining0 - SumSize(SizeMarked)
        /\ remaining0 <= targetSize => SizeMarked = <<>>
        /\ remaining0 > targetSize =>
              /\ SizeMarked # <<>>
              /\ remainingSize <= targetSize
              /\ remainingSize + Last(SizeMarked).Size > targetSize
        /\ remainingSize <= targetSize \/ Len(toDelete) = Len(files)

\* C2 witness: the size phase marks a file and stops before the last one
C2_Witness ==
    /\ Planned
    /\ remaining0 > targetSize
    /\ SizeMarked # <<>>
    /\ Len(SizeMarked) < Len(Candidates)
    /\ remainingSize > 0

C4_AttemptsOldestFirst ==
    op = "Trim" =>
        \A i, j \in 1..Len(attempted) :
            i < j => attempted[i].ModTime <= attempted[j].ModTime

\* C4 witness: a file of the size phase is attempted after a file of the age
\* phase that the walker of the same root had appended after it
C4_Witness ==
    /\ op = "Trim"
    /\ pc = "done"
    /\ \E i, j \in 1..Len(attempted) :
          /\ i < j
          /\ attempted[i] \in Range(ageMarked)
          /\ attempted[j] \in Range(SizeMarked)
          /\ RootOf(attempted[i].Path) = RootOf(attempted[j].Path)
          /\ attempted[i].Path > attempted[j].Path

\* C5: the context is polled before each marked file: no file is removed once
\* it is cancelled, and the pass that finds it cancelled returns "interrupted"
\* with the cancellation error and the counts of exactly the deletions made.
C5_InterruptedReturnsPartialCounts ==
    [][/\ cancelled => disk' = disk
       /\ (pc = "delete" /\ idx <= Len(toDelete) /\ cancelled) =>
             /\ pc' = TrimExit
             /\ result'.Output = Out("interrupted", 0, <<>>)
             /\ err' = "context canceled"
             /\ result'.FreedBytes = SumSize(Accounted)
             /\ result'.DeletedCount = Len(Accounted)
             /\ ~opts.DryRun => DOMAIN disk' = DOMAIN disk0 \ PathsOf(Accounted)
       /\ (pc = "delete" /\ result'.Output.kind = "interrupted") => cancelled]_vars

\* C5 witness: a real run interrupted after a removal, with a marked file left
C5_Witness ==
    /\ op = "Trim"
    /\ pc = "done"
    /\ ~opts.DryRun
    /\ result.Output.kind = "interrupted"
    /\ result.DeletedCount >= 1
    /\ idx <= Len(toDelete)

\* C6 as claimed: for every file set and policy, Trim called with a cancelled
\* context returns "interrupted" with the cancellation error and deletes nothing.
C6_PreCancelledAlwaysInterrupted ==
    (op = "Trim" /\ pc = "done" /\ cancelledAt = "start") =>
        /\ result.Output.kind = "interrupted"
        /\ err = "context canceled"
        /\ disk = disk0

\* C6 amended: Trim called with a cancelled context deletes nothing; it returns
\* "interrupted" with the cancellation error when at least one file is marked,
\* and its normal result with a nil error when no file is found or marked.
C6_PreCancelledInterruptedIfMarked ==
    (op = "Trim" /\ pc = "done" /\ cancelledAt = "start") =>
        /\ disk = disk0
        /\ removed = <<>>
        /\ result.FreedBytes = 0
        /\ result.DeletedCount = 0
        /\ toDelete # <<>> =>
              (result.Output.kind = "interrupted" /\ err = "context canceled")
        /\ toDelete = <<>> =>
              (result.Output.kind \in {"no files found", "deleted files", "would delete"}
                  /\ err = "nil")

\* C6 witness: a real run with marked files, cancelled before the call
C6_Witness ==
    /\ op = "Trim"
    /\ pc = "done"
    /\ cancelledAt = "start"
    /\ ~opts.DryRun
    /\ Len(toDelete) >= 2
    /\ result.Output.kind = "interrupted"

\* C7: with DryRun set nothing changes on disk: Trim and the file provider
\* remove no file, the command provider returns "would run: <command>" and
\* neither parses nor starts the command.
C7_DryRunChangesNothing ==
    opts.DryRun =>
        /\ disk = disk0
        /\ removed = <<>>
        /\ ~cmdParsed
        /\ ~cmdStarted
        /\ (op = "CommandFull" /\ pc = "done") =>
              /\ cleanResult = CleanResult(Out("would run", 0, <<cleanCmd>>), 0, 0)
              /\ cleanErr = "nil"

\* C7 witness: a dry run of the file provider's full clean that lists two files
C7_Witness ==
    /\ opts.DryRun
    /\ op = "FileFull"
    /\ pc = "done"
    /\ cleanResult.FilesDeleted >= 2
    /\ cleanResult.Output.kind = "would delete"

ExpectedReason(p) == IF RootOf(p) = "r1" THEN "permission denied" ELSE "file locked"

\* C9: a failed removal is classified and appended to the warnings, adds
\* nothing to FreedBytes and DeletedCount, does not stop the loop, and the run
\* that is not interrupted returns all warnings and a nil error.
C9_FailedRemovalIsWarningOnly ==
    (op = "Trim" /\ ~opts.DryRun /\ Planned) =>
        /\ Len(deleteErrors) = Len(warnings) + Len(Failed)
        /\ \A i \in 1..Len(Failed) :
              /\ deleteErrors[Len(warnings) + i].Path = Failed[i].Path
              /\ deleteErrors[Len(warnings) + i].Reason = ExpectedReason(Failed[i].Path)
        /\ result.FreedBytes = SumSize(Succeeded)
        /\ result.DeletedCount = Len(Succeeded)
        /\ pc = "delete" => Len(attempted) = idx - 1
        /\ (pc = "done" /\ result.Output.kind # "interrupted") =>
              /\ err = "nil"
              /\ attempted = toDelete
              /\ result.Errors = deleteErrors
              /\ result.Output = Out("deleted files", Len(Succeeded), <<>>)

\* C9 witness: a real run that returned without error after a removal failed
\* and a later one succeeded
C9_Witness ==
    /\ op = "Trim"
    /\ ~opts.DryRun
    /\ pc = "done"
    /\ err = "nil"
    /\ \E i, j \in 1..Len(attempted) :
          /\ i < j
          /\ attempted[i].Path \notin Range(removed)
          /\ attempted[j].Path \in Range(removed)

\* C10 as claimed: when a real clean is cancelled after files were removed, the
\* result returned next to the cancellation error reports those removals, for
\* Trim, for the file provider's full and smart clean and for the command
\* provider's smart clean.
C10_CancelledCleanReportsDeletions ==
    ~opts.DryRun =>
        /\ (op \in {"Trim", "SmartClean"} /\ pc \in {"trimmed", "done"}
              /\ err = "context canceled") =>
              /\ result.FreedBytes = SumSize(Succeeded)
              /\ result.DeletedCount = Len(removed)
        /\ (op \in {"SmartClean", "FileFull"} /\ pc = "done"
              /\ cleanErr = "context canceled") =>
              /\ cleanResult.BytesCleaned = SumSize(Succeeded)
              /\ cleanResult.FilesDeleted = Len(removed)


\* ------------------------------------------------------------- the scanner
\* the entries that lie under a root
Under(root) == {p \in DOMAIN disk0 : root = "top" \/ root = RootOf(p)}

\* the regular files under a root that can be read
AccessibleFiles(root) ==
    {p \in Under(root) : entryType[p] = "file" /\ dirMode[RootOf(p)] = "ok"}

\* the regular files reachable under the roots of the call
Reachable == UNION {AccessibleFiles(roots[i]) : i \in 1..Len(roots)}

RECURSIVE SizeOfSet(_)
SizeOfSet(S) ==
    IF S = {} THEN 0
    ELSE LET p == CHOOSE x \in S : TRUE IN disk0[p].Size + SizeOfSet(S \ {p})

RECURSIVE SumOver(_, _)
\* the sum of f[i] for i from 1 to n
SumOver(f, n) == IF n = 0 THEN 0 ELSE f[n] + SumOver(f, n - 1)

\* how often x occurs in the sequence s
Count(s, x) == Cardinality({k \in 1..Len(s) : s[k] = x})

\* the paths of a list of warnings or of files
PathsIn(s) == [k \in 1..Len(s) |-> s[k].Path]

\* two roots of the call overlap: the same root twice, or one inside the other
Overlapping ==
    \E i, j \in 1..Len(roots) : i # j /\ Under(roots[i]) \cap Under(roots[j]) # {}

CalculateSizeReturned == op = "CalculateSize" /\ pc = "done"
ListFilesReturned == op = "ListFiles" /\ pc = "done"

\* C11 (as stated): CalculateSize returns the sum of the sizes of the regular,
\* non-symlink files reachable under the roots, each file counted once, also
\* when a root is listed twice or one root lies inside another.
C11_EachFileCountedOnce ==
    CalculateSizeReturned => scanResult.Size = SizeOfSet(Reachable)

\* What the code does keep: roots that do not overlap give the sum over the
\* reachable files.
C11_DisjointRootsCountOnce ==
    (CalculateSizeReturned /\ ~Overlapping) => scanResult.Size = SizeOfSet(Reachable)

\* what walker i contributes: the sizes of the accessible files under its root
WalkerBytes(i) == SizeOfSet(AccessibleFiles(roots[i]))

\* the paths that cannot be read under a root: a directory that cannot be
\* listed, and the files and subdirectories of a directory without search
\* permission
Unreadable(root) ==
    {DirPath(r) : r \in {r \in Roots : (root = "top" \/ root = r) /\ dirMode[r] = "noread"}}
      \cup {p \in Under(root) : dirMode[RootOf(p)] = "nostat"
                                  /\ entryType[p] \in {"file", "dir"}}

\* in how many of the walks started for the roots the path p is in set S(root)
TimesIn(S(_), p) == Cardinality({i \in 1..Len(roots) : p \in S(roots[i])})

\* C12: CalculateSize and ListFiles start one walker per root and return only
\* after every walker has finished; whatever the interleaving, the returned
\* total, file list and warning list hold each walker's contribution exactly
\* once: nothing is lost and nothing is duplicated.
C12_EveryContributionOnce ==
    /\ pc \in {"walk", "done"} => Len(walker) = Len(roots)
    /\ pc = "done" => WalkersDone
    /\ CalculateSizeReturned =>
         /\ scanResult.Size = SumOver([i \in 1..Len(roots) |-> WalkerBytes(i)], Len(roots))
         /\ \A p \in (0 - 4)..MaxFiles :
               Count(PathsIn(scanResult.Warnings), p) = TimesIn(Unreadable, p)
    /\ ListFilesReturned =>
         /\ \A p \in (0 - 4)..MaxFiles :
               /\ Count(PathsIn(scanResult.Files), p) = TimesIn(AccessibleFiles, p)
               /\ Count(PathsIn(scanResult.Warnings), p) = TimesIn(Unreadable, p)
         /\ \A k \in 1..Len(scanResult.Files) :
               scanResult.Files[k] = [Path |-> scanResult.Files[k].Path,
                                      Size |-> disk0[scanResult.Files[k].Path].Size,
                                      ModTime |-> disk0[scanResult.Files[k].Path].ModTime]

\* the walkers of two different roots both contributed bytes, and one of them
\* a warning
C12_Witness ==
    /\ CalculateSizeReturned
    /\ Len(roots) = 2
    /\ roots[1] # roots[2]
    /\ \A i \in 1..2 : WalkerBytes(i) > 0
    /\ scanResult.Size = WalkerBytes(1) + WalkerBytes(2)
    /\ Len(scanResult.Warnings) > 0

\* the entries of a list of files that are not regular files
NotRegular(fs) == {k \in 1..Len(fs) : entryType[fs[k].Path] # "file"}

\* a step of the size scan that changes the total is the callback on a regular file
TotalGrowsOnFilesOnly ==
    total' # total =>
       \E i \in DOMAIN walker :
          /\ walker[i] # <<>>
          /\ walker'[i] = Tail(walker[i])
          /\ Head(walker[i]).entry # 0
          /\ entryType[Head(walker[i]).entry] = "file"
          /\ total' = total + disk[Head(walker[i]).entry].Size

\* C13: no directory and no symbolic link appears in ListFiles' result or adds
\* to CalculateSize's total, whatever size the entry has; so Trim never marks
\* and never deletes a symlink or a directory.
C13_OnlyRegularFiles ==
    /\ [](/\ NotRegular(files) = {}
          /\ NotRegular(toDelete) = {}
          /\ \A k \in 1..Len(removed) : entryType[removed[k]] = "file"
          /\ \A p \in DOMAIN disk0 : entryType[p] # "file" => p \in DOMAIN disk)
    /\ [][TotalGrowsOnFilesOnly]_vars

\* a real smart clean removed a file of a root that also holds a symlink and a
\* directory
C13_Witness ==
    /\ op = "SmartClean"
    /\ pc = "done"
    /\ removed # <<>>
    /\ \E p, q \in DOMAIN disk0 :
          /\ entryType[p] = "symlink"
          /\ entryType[q] = "dir"
          /\ dirMode[RootOf(p)] = "ok"
          /\ dirMode[RootOf(q)] = "ok"
          /\ disk0[p].ModTime < disk0[removed[1]].ModTime

\* C14: when a directory or an entry under an existing root cannot be read,
\* the scan appends a classified warning for that path, keeps walking the rest
\* of that root and the other roots, still counts every accessible file and
\* returns a nil error; no path that exists but could not be read is dropped
\* without a warning.
C14_UnreadableIsWarnedNotFatal ==
    (CalculateSizeReturned \/ ListFilesReturned) =>
       /\ scanResult.err = "nil"
       /\ \A i \in 1..Len(roots) : \A p \in Unreadable(roots[i]) :
             \E k \in 1..Len(scanResult.Warnings) :
                /\ scanResult.Warnings[k].Path = p
                /\ scanResult.Warnings[k].Reason = "permission denied"
       /\ CalculateSizeReturned => scanResult.Size >= SizeOfSet(Reachable)
       /\ ListFilesReturned => Reachable \subseteq Range(PathsIn(scanResult.Files))

\* a scan met an unreadable path in one root and returned the files of another
C14_Witness ==
    /\ ListFilesReturned
    /\ roots = <<"r2", "r1">>
    /\ Unreadable("r2") # {}
    /\ AccessibleFiles("r1") # {}
    /\ Len(scanResult.Warnings) = Cardinality(Unreadable("r2"))
    /\ Len(scanResult.Files) = Cardinality(AccessibleFiles("r1"))

\* the roots of the call that exist
RECURSIVE Existing(_)
Existing(rs) ==
    IF rs = <<>> THEN <<>>
    ELSE (IF Head(rs) \in Roots \cup {"top"} THEN <<Head(rs)>> ELSE <<>>) \o Existing(Tail(rs))

\* C15: a root that does not exist contributes zero bytes and zero files,
\* produces no warning and no error, and does not change what the other roots
\* of the same call contribute.
C15_MissingRootIsSkipped ==
    (CalculateSizeReturned \/ ListFilesReturned) =>
       LET ex == Existing(roots)
       IN /\ scanResult.err = "nil"
          /\ \A k \in 1..Len(scanResult.Warnings) :
                scanResult.Warnings[k].Path # DirPath("gone")
          /\ Len(scanResult.Warnings)
               = SumOver([i \in 1..Len(ex) |-> Cardinality(Unreadable(ex[i]))], Len(ex))
          /\ CalculateSizeReturned =>
               scanResult.Size
                 = SumOver([i \in 1..Len(ex) |-> SizeOfSet(AccessibleFiles(ex[i]))], Len(ex))
          /\ ListFilesReturned =>
               Len(scanResult.Files)
                 = SumOver([i \in 1..Len(ex) |-> Cardinality(AccessibleFiles(ex[i]))], Len(ex))

\* a scan of a missing root and of a root with a file returned that file
C15_Witness ==
    /\ CalculateSizeReturned
    /\ roots = <<"gone", "r1">>
    /\ scanResult.Size > 0
    /\ scanResult.Warnings = <<>>

\* the scan or the deletions of the call produced a warning
WarningsProduced == Len(warnings) > 0 \/ Len(deleteErrors) > 0

\* C16 (as stated): the smart-clean summary of the direct-file provider ends
\* with the per-reason warning counts whenever the scan or the deletions
\* produced a warning, in a dry run as well as in a real run.
C16_SummaryAlwaysCountsWarnings ==
    (pc = "done" /\ provider = "file" /\ cleanErr = "nil" /\ WarningsProduced)
       => cleanResult.Output.suffix # <<>>

\* What the code does keep: the summary of a real run counts the warnings, and
\* so does the "no files found" summary of either run.
C16_RealRunSummaryCountsWarnings ==
    (pc = "done" /\ provider = "file" /\ cleanErr = "nil" /\ WarningsProduced
       /\ (~opts.DryRun \/ files = <<>>))
       => /\ cleanResult.Output.suffix # <<>>
          /\ SumOver(cleanResult.Output.suffix, 3)
               = (IF files = <<>> THEN Len(warnings) ELSE Len(deleteErrors))

\* ------------------------------------------------------------------ Docker
DockerCleanCalled == op \in {"DockerSmart", "DockerFull"}

NotAvailableResult == CleanResult(Out("docker not available", 0, <<>>), 0, 0)

\* C17 (as stated): when the Docker provider is unavailable, Clean in either
\* mode, dry-run or not, returns "docker not available" with a nil error and
\* starts no command.
C17_UnavailableStartsNoCommand ==
    (DockerCleanCalled /\ ~DockerAvailable) =>
       /\ ~cmdStarted
       /\ probes = 0
       /\ pc = "done" => (cleanResult = NotAvailableResult /\ cleanErr = "nil")

\* C17 (amended): when the Docker provider is unavailable, Clean in either
\* mode, dry-run or not, returns "docker not available" with a nil error; it
\* neither parses nor starts a clean command and removes nothing; the one
\* process it starts is the `docker ps` probe of the availability check, when
\* the docker binary is found.
C17_UnavailableStartsNoCleanCommand ==
    (DockerCleanCalled /\ ~DockerAvailable) =>
       /\ ~cmdStarted
       /\ ~cmdParsed
       /\ disk = disk0
       /\ pc # "run"
       /\ pc = "done" =>
            /\ cleanResult = NotAvailableResult
            /\ cleanErr = "nil"
            /\ probes = AvailableProbes

\* a real full clean with a good command returned while the daemon was down
C17_Witness ==
    /\ op = "DockerFull"
    /\ pc = "done"
    /\ docker.bin
    /\ ~docker.daemon
    /\ ~opts.DryRun
    /\ cleanCmd = "valid"
    /\ disk # <<>>
    /\ cleanResult = NotAvailableResult

\* C18 (as stated): CurrentSize of the Docker provider first checks
\* availability, and with the daemon unavailable it reports the provider as
\* unusable: it does not scan the paths and returns no size.
C18_CurrentSizeChecksAvailability ==
    (op = "DockerCurrentSize" /\ ~DockerAvailable) =>
       /\ walker = <<>>
       /\ total = 0
       /\ pc = "done" => scanResult = NoScanResult

\* t is s without its leading and trailing white space
IsTrimOf(t, s) ==
    /\ t # <<>> => (Head(t) # " " /\ Last(t) # " ")
    /\ \E a \in 0..Len(s) :
          /\ a + Len(t) <= Len(s)
          /\ \A k \in 1..Len(t) : s[a + k] = t[k]
          /\ \A k \in 1..Len(s) : (k <= a \/ k > a + Len(t)) => s[k] = " "

CommandFullReturned == op = "CommandFull" /\ pc = "done"

\* a started command that exits non-zero returns its trimmed output, no freed
\* bytes and the error
FailedCommandReturnsOutput ==
    (CommandFullReturned /\ cmdStarted /\ captured.exit \notin {"ok", "none"}) =>
       /\ cleanErr # "nil"
       /\ IsTrimOf(cleanResult.Output.lines, captured.stdout \o captured.stderr)
       /\ cleanResult.Output.kind = "command output"
       /\ cleanResult.BytesCleaned = 0

\* C19 (as stated): in the command provider's full clean, a command string
\* that cannot be shell-split returns an error without starting any process,
\* and a command that exits non-zero returns a non-nil error with a result
\* whose summary is the captured, trimmed stdout+stderr and whose freed bytes
\* are zero.
C19_BadCommandIsAnError ==
    /\ (op = "CommandFull" /\ cleanCmd = "invalid") =>
          /\ ~cmdStarted
          /\ pc = "done" => cleanErr = "invalid command"
    /\ FailedCommandReturnsOutput

\* C19 (amended): the same in a real run; a dry run returns "would run: <cmd>"
\* with a nil error and never parses the command.
C19_BadCommandIsAnErrorInARealRun ==
    /\ (op = "CommandFull" /\ cleanCmd = "invalid") =>
          /\ ~cmdStarted
          /\ (pc = "done" /\ ~opts.DryRun) =>
                (cleanErr = "invalid command" /\ cleanResult = ZeroClean /\ cmdParsed)
          /\ (pc = "done" /\ opts.DryRun) =>
                /\ cleanErr = "nil"
                /\ ~cmdParsed
                /\ cleanResult = CleanResult(Out("would run", 0, <<cleanCmd>>), 0, 0)
    /\ FailedCommandReturnsOutput

\* a command that wrote white space around its output on both streams, removed
\* the files and exited non-zero
C19_Witness ==
    /\ CommandFullReturned
    /\ cmdStarted
    /\ captured = [stdout |-> <<" ", "x">>, stderr |-> <<"x", " ">>, exit |-> "exit status 1"]
    /\ cleanResult.Output.lines = <<"x", "x">>
    /\ disk0 # <<>>
    /\ disk = <<>>
    /\ cleanErr = "exit status 1"

\* --------------------------------------------------------------- JetBrains
\* the directories of product P under the base paths of the provider whose
\* names follow the pattern, as paths
VersionDirsOf(P) ==
    UNION {{[base |-> b, name |-> e.name] : e \in {e \in jbDisk[b] : e.isDir /\ e.product = P}} :
             b \in Range(jbPaths) \ {0}}

\* the number a name's version stands for: year and minor version
Rank(d) ==
    LET e == CHOOSE e \in EntryNames : e.name = d.name IN e.year * 1000 + e.minor

\* d was read before k: an earlier base path, or an earlier name in the same one
ReadBefore(d, k) ==
    LET at(b) == CHOOSE i \in 1..Len(jbPaths) : jbPaths[i] = b
    IN \/ at(d.base) < at(k.base)
       \/ d.base = k.base /\ NameLess(d.name, k.name)

TrueProducts == {"T", "I", "T1"}

FindRemovableDirsReturned == op = "FindRemovableDirs" /\ pc = "done"

\* what holds of every call: only version directories are marked, none twice,
\* a product with one version directory has nothing removable, and 2023.10
\* ranks above 2023.3
OnlyOldVersionsMarked ==
    /\ Range(removable) \subseteq UNION {VersionDirsOf(P) : P \in TrueProducts}
    /\ Len(removable) = Cardinality(Range(removable))
    /\ \A P \in TrueProducts :
          Cardinality(VersionDirsOf(P)) = 1 => VersionDirsOf(P) \cap Range(removable) = {}
    /\ compareVersions(<<"2", "0", "2", "3", ".", "1", "0">>,
                       <<"2", "0", "2", "3", ".", "3">>) = 1

\* C20 (as stated): among the directories <product><version> of one product,
\* exactly the directory with the numerically highest version is kept and every
\* other one is marked removable; a product with a single version directory
\* has nothing removable, and 2023.10 ranks above 2023.3.
C20_HighestVersionKept ==
    FindRemovableDirsReturned =>
       /\ OnlyOldVersionsMarked
       /\ \A P \in TrueProducts : \A d \in VersionDirsOf(P) :
             d \notin Range(removable) <=> \A k \in VersionDirsOf(P) : Rank(k) <= Rank(d)

\* What the code does keep: exactly one directory of the product is kept, one
\* whose version is numerically highest, and every other one is marked; of
\* several directories with the same highest version (the same name under two
\* base paths) the one read last is kept.
C20_OneHighestVersionKept ==
    FindRemovableDirsReturned =>
       /\ OnlyOldVersionsMarked
       /\ \A P \in TrueProducts :
             LET D == VersionDirsOf(P)
                 K == D \ Range(removable)
             IN D # {} =>
                  /\ Cardinality(K) = 1
                  /\ \A k \in K : \A d \in D \ {k} :
                        \/ Rank(d) < Rank(k)
                        \/ Rank(d) = Rank(k) /\ ReadBefore(d, k)

\* ------------------------------------------ the file provider's full clean
RECURSIVE SizeOn(_, _)
\* the bytes the files at the paths S take on the disk d
SizeOn(d, S) ==
    IF S = {} THEN 0
    ELSE LET p == CHOOSE x \in S : TRUE IN d[p].Size + SizeOn(d, S \ {p})

\* the bytes on disk now
DiskSize == SizeOn(disk, DOMAIN disk)

\* the entries of s the loop accounted in bytesDeleted
AccountedOf(s) ==
    IF opts.DryRun THEN s ELSE SelectSeq(s, LAMBDA f : f.Path \in Range(removed))

\* the full clean returned without being interrupted
FileFullReturned == op = "FileFull" /\ pc = "done" /\ cleanErr = "nil"

LeavesOf(e) == {e[i] : i \in 1..Len(e)} \ {"PathError"}

\* the reason the contract gives for an error
StatedReason(e) ==
    CASE LeavesOf(e) \cap {"EACCES", "EPERM", "ErrPermission"} # {} -> "permission denied"
      [] LeavesOf(e) \cap {"ENOENT", "ErrNotExist"} # {} -> "not found"
      [] LeavesOf(e) \cap {"EBUSY", "ETXTBSY"} # {} -> "file locked"
      [] OTHER -> "access error"

\* C22: ClassifyError is a deterministic, stateless mapping: a permission
\* failure gives permission-denied, a missing-path failure not-found, EBUSY or
\* ETXTBSY locked, any other error and the nil error unknown; the path is kept,
\* unwrapping the value gives the original error, and equal arguments give
\* equal values whatever was classified before.
C22_ClassifyErrorIsAFixedMapping ==
    /\ \A i \in 1..Len(classified) :
          /\ classified[i].value.Reason = StatedReason(classified[i].e)
          /\ classified[i].value.Path = classified[i].path
          /\ Unwrap(classified[i].value) = classified[i].e
    /\ \A i, j \in 1..Len(classified) :
          (classified[i].path = classified[j].path /\ classified[i].e = classified[j].e)
             => classified[i].value = classified[j].value

\* C22 witness: the nil error was classified, then a wrapped ETXTBSY
C22_Witness ==
    /\ Len(classified) = 2
    /\ classified[1].e = <<>>
    /\ classified[1].value.Reason = "access error"
    /\ classified[2].e = <<"PathError", "ETXTBSY">>
    /\ classified[2].value.Reason = "file locked"

\* ------------------------------------------------- Trim's returns and warnings
TrimReturned == op = "Trim" /\ pc = "done"

\* C23: when the enumeration finds no file, because the roots hold no regular
\* file that can be read, Trim deletes nothing and returns zero FreedBytes and
\* DeletedCount, the summary "no files found" and a nil error.
C23_NoFilesIsNotAnError ==
    (TrimReturned /\ Reachable = {}) =>
        /\ files = <<>>
        /\ disk = disk0
        /\ attempted = <<>>
        /\ result.FreedBytes = 0
        /\ result.DeletedCount = 0
        /\ result.Output = Out("no files found", 0, <<>>)
        /\ err = "nil"

\* C23 witness: Trim returned from roots that hold entries but no regular file
\* that can be read, under a context cancelled before the call
C23_Witness ==
    /\ TrimReturned
    /\ Reachable = {}
    /\ Cardinality(DOMAIN disk0) >= 2
    /\ warnings # <<>>
    /\ cancelled
    /\ result.Output.kind = "no files found"

\* C24 (as stated): with MaxAge = 0 the age phase marks every enumerated file,
\* so an uninterrupted real run in which no deletion fails leaves no regular
\* file under the roots.
C24_MaxAgeZeroMarksEveryFile ==
    (op = "Trim" /\ opts.MaxAge = 0 /\ Planned) =>
        /\ ageMarked = files
        /\ (pc = "done" /\ ~opts.DryRun /\ err = "nil" /\ Failed = <<>>) => DOMAIN disk = {}

\* What holds with MaxAge = 0: the age phase marks exactly the files modified
\* before the instant the call reads the clock, and an uninterrupted real run in
\* which no deletion fails leaves none of them; a file modified at that instant
\* is left to the size phase.
C24_MaxAgeZeroMarksEveryOlderFile ==
    (op = "Trim" /\ opts.MaxAge = 0 /\ Planned) =>
        /\ ageMarked = SelectSeq(files, LAMBDA f : f.ModTime < Now)
        /\ (pc = "done" /\ ~opts.DryRun /\ err = "nil" /\ Failed = <<>>) =>
              /\ \A p \in DOMAIN disk : disk[p].ModTime >= Now
              /\ DiskSize <= TargetSize(opts.MaxSize)

\* ------------------------------------------------------------ repeated scans
\* the second scan has returned
SecondScanReturned == op \in {"CalculateSize", "ListFiles"} /\ callNo = 2 /\ pc = "done"

\* C25: a second CalculateSize or ListFiles call on the unmodified tree returns
\* the total and the set of file entries of the first call (each entry as often
\* as before), and the same error.
C25_RepeatedScanReturnsTheSame ==
    SecondScanReturned =>
        /\ disk = disk0
        /\ scanResult.Size = prev.result.Size
        /\ Range(scanResult.Files) = Range(prev.result.Files)
        /\ \A f \in Range(scanResult.Files) :
              Count(scanResult.Files, f) = Count(prev.result.Files, f)
        /\ Range(scanResult.Warnings) = Range(prev.result.Warnings)
        /\ scanResult.err = prev.err

\* C25 witness: two ListFiles calls returned the same files in a different
\* order, and the same warning
C25_Witness ==
    /\ SecondScanReturned
    /\ op = "ListFiles"
    /\ Len(scanResult.Files) >= 2
    /\ scanResult.Files # prev.result.Files
    /\ scanResult.Warnings # <<>>

\* C26 (as stated): every access warning produced while Trim enumerates the
\* files is in the returned TrimResult.Errors, on each of Trim's return paths.
C26_WarningsOnEveryReturn ==
    TrimReturned =>
        /\ Len(result.Errors) >= Len(warnings)
        /\ SubSeq(result.Errors, 1, Len(warnings)) = warnings

\* What holds: the warnings are returned by the "no files found" return and by
\* the return of a completed real run; the dry-run return and the interrupted
\* return leave Errors empty.
C26_WarningsOnNoFilesAndRealRun ==
    TrimReturned =>
        IF files = <<>> \/ (~opts.DryRun /\ err = "nil")
        THEN /\ Len(result.Errors) >= Len(warnings)
             /\ SubSeq(result.Errors, 1, Len(warnings)) = warnings
        ELSE result.Errors = <<>>

\* ------------------------------------------------- two concurrent Trim calls
\* the other call
Other(c) == CHOOSE d \in Calls : d # c

\* the entries call c tried to remove and did not
FailedOf(c) == SelectSeq(call[c].attempted, LAMBDA f : f.Path \notin Range(call[c].removed))

\* C27: when two Trim calls run concurrently on the same root, the removal of a
\* file is credited to at most one of them, which is the one that removed it;
\* the call that finds a file gone, the other call having removed it, records a
\* not-found warning for it and goes on; and a call that is not cancelled
\* returns a nil error after it has tried every file it marked.
C27_RacingCallsCreditEachRemovalOnce ==
    op = "ConcurrentTrim" =>
        /\ \A p \in DOMAIN disk0 :
              /\ Cardinality({c \in Calls : p \in Range(call[c].removed)}) <= 1
              /\ p \notin DOMAIN disk <=> \E c \in Calls : p \in Range(call[c].removed)
        /\ \A c \in Calls :
              /\ ~call[c].opts.DryRun =>
                    /\ call[c].result.DeletedCount = Len(call[c].removed)
                    /\ call[c].result.FreedBytes = SizeOn(disk0, Range(call[c].removed))
                    /\ call[c].idx >= 1 =>
                          /\ Len(call[c].deleteErrors) = Len(call[c].warnings) + Len(FailedOf(c))
                          /\ \A k \in 1..Len(FailedOf(c)) :
                                LET w == call[c].deleteErrors[Len(call[c].warnings) + k]
                                IN /\ w.Path = FailedOf(c)[k].Path
                                   /\ w.Reason = "not found" <=> w.Path \in Range(call[c].missing)
              /\ call[c].opts.DryRun => call[c].removed = <<>>
              /\ \A k \in 1..Len(call[c].missing) :
                    call[c].missing[k] \in Range(call[Other(c)].removed)
              /\ \A k \in 1..Len(call[c].warnings) : call[c].warnings[k].Reason = "not found"
              /\ call[c].pc = "delete" => Len(call[c].attempted) = call[c].idx - 1
              /\ call[c].err # "nil" => call[c].cancelled
              /\ (call[c].pc = "done" /\ call[c].err = "nil" /\ call[c].files # <<>>) =>
                    call[c].attempted = call[c].toDelete

\* C27 witness: both calls are real runs and have returned without error; one
\* of them found a file gone and removed another file after that
C27_Witness ==
    /\ op = "ConcurrentTrim"
    /\ \A c \in Calls : call[c].pc = "done" /\ call[c].err = "nil" /\ ~call[c].opts.DryRun
    /\ \E c \in Calls : \E i, j \in 1..Len(call[c].attempted) :
          /\ i < j
          /\ call[c].attempted[i].Path \in Range(call[c].missing)
          /\ call[c].attempted[j].Path \in Range(call[c].removed)
          /\ call[c].attempted[i].Path \in Range(call[Other(c)].removed)

\* ------------------------------------------------------ the interactive model
\* a clean result has been handled in this step
ResultArrives ==
    \E cmd \in cleaning :
        /\ cmd \notin cleaning'
        /\ providers[cmd.idx].cleanResult = "nil"
        /\ providers'[cmd.idx].cleanResult = "set"

\* C28: the state of the interactive model changes only from Selection to
\* Confirmation on Enter with a provider selected, from Confirmation to
\* Selection on n, N, Esc or Ctrl+C, from Confirmation to Cleaning on y or Y,
\* and from Cleaning to Done when the result of the last selected provider
\* arrives; while Cleaning no key changes the state or issues a command, Enter
\* with nothing selected stays in Selection, and Done is never left.
C28_StateChangesOnlyAlongTheFlow ==
    [][/\ state' # state =>
            \/ /\ state = "Selection" /\ state' = "Confirmation"
               /\ selected # {}
               /\ handleKey("enter")
            \/ /\ state = "Confirmation" /\ state' = "Selection"
               /\ \E key \in {"n", "N", "esc", "ctrl+c"} : handleKey(key)
            \/ /\ state = "Confirmation" /\ state' = "Cleaning"
               /\ \E key \in {"y", "Y"} : handleKey(key)
               /\ Cardinality(cleaning') = 1
            \/ /\ state = "Cleaning" /\ state' = "Done"
               /\ ResultArrives
               /\ \A i \in selected : providers'[i].cleanResult = "set"
               /\ cleaning' = {}
       /\ (state = "Cleaning" /\ (state' # state \/ cleanCmds' # cleanCmds \/ cleaning' # cleaning))
            => ResultArrives
       /\ (state = "Cleaning" /\ \E key \in Keys : handleKey(key)) => UNCHANGED tuiVars
       /\ (state = "Selection" /\ selected = {} /\ handleKey("enter")) => UNCHANGED tuiVars
       /\ state = "Done" => state' = "Done"]_vars

\* C28 witness: the whole flow has been walked: two providers were cleaned,
\* the model is Done, and a key of Done has ended the program
C28_Witness ==
    /\ state = "Done"
    /\ Len(cleanCmds) >= 2
    /\ quitting
    /\ ~running

\* the indexes of the clean commands issued so far, in the order of issue
IssuedIdx == [k \in 1..Len(cleanCmds) |-> cleanCmds[k].idx]

\* C29: after the confirmation the selected providers are cleaned one at a
\* time in ascending index order, the next command being issued only when the
\* result of the previous one has arrived; no unselected provider is ever
\* cleaned, no provider is cleaned twice, and at Done every selected provider
\* has been cleaned exactly once.
C29_SelectedCleanedOnceInOrder ==
    /\ Cardinality(cleaning) <= 1
    /\ \A k \in 1..Len(cleanCmds) : cleanCmds[k].idx \in selected
    /\ \A k \in 1..(Len(cleanCmds) - 1) : cleanCmds[k].idx < cleanCmds[k + 1].idx
    /\ \A k \in 1..(Len(cleanCmds) - 1) : providers[cleanCmds[k].idx].cleanResult = "set"
    /\ \A cmd \in cleaning : Len(cleanCmds) >= 1 /\ cmd = cleanCmds[Len(cleanCmds)]
    /\ \A k \in 1..Len(cleanCalls) : k <= Len(cleanCmds) /\ cleanCalls[k] = cleanCmds[k].idx
    /\ state \in {"Selection", "Confirmation"} => cleanCmds = <<>>
    /\ state = "Done" =>
          /\ {cleanCmds[k].idx : k \in 1..Len(cleanCmds)} = selected
          /\ cleanCalls = IssuedIdx
          /\ cleaning = {}

\* C29 witness: two providers were selected and cleaned, the lower index
\* first, one of the calls failing, and the model is Done
C29_Witness ==
    /\ state = "Done"
    /\ selected = {0, 1}
    /\ cleanCalls = <<0, 1>>
    /\ providers[0].cleanErr = "clean error"
    /\ providers[1].cleanErr = "nil"

\* C30: every selected index is of a provider whose scan has returned and
\* marked it available, so its provider object is loaded; every clean command
\* is therefore for a loaded provider and none ends in "provider not loaded".
C30_SelectedAreScannedAndAvailable ==
    /\ \A i \in selected :
          /\ i \in DOMAIN providers
          /\ i \notin scanning
          /\ providers[i].available
          /\ providers[i].provider
    /\ \A k \in 1..Len(cleanCmds) : providers[cleanCmds[k].idx].provider
    /\ \A i \in DOMAIN providers : providers[i].cleanErr # "provider not loaded"

\* C30 witness: a selected provider is being cleaned while another provider
\* has not been scanned yet
C30_Witness ==
    /\ state = "Cleaning"
    /\ cleaning # {}
    /\ scanning # {}
    /\ selected # {}

RECURSIVE SumFreed(_)
\* the sum of BytesCleaned over the results of the providers of S that were
\* received with a nil error
SumFreed(S) ==
    IF S = {} THEN 0
    ELSE LET i == CHOOSE x \in S : TRUE
             own == IF providers[i].cleanResult = "set" /\ providers[i].cleanErr = "nil"
                    THEN providers[i].BytesCleaned ELSE 0
         IN own + SumFreed(S \ {i})

\* C31: totalFreed is the sum of BytesCleaned over the clean results received
\* with a nil error, so a failed clean adds nothing, whatever bytes its result
\* carries; a failed clean does not stop the run: while Cleaning a command is
\* always in flight, and at Done every selected provider has its result.
C31_TotalFreedSumsSuccessfulResults ==
    /\ totalFreed = SumFreed(DOMAIN providers)
    /\ state = "Cleaning" => Cardinality(cleaning) = 1
    /\ state = "Done" => \A i \in selected : providers[i].cleanResult = "set"

\* C31 witness: the first provider failed with bytes in its result, the second
\* was still cleaned and succeeded, and only its bytes were added
C31_Witness ==
    /\ state = "Done"
    /\ selected = {0, 1}
    /\ providers[0].cleanErr = "clean error" /\ providers[0].BytesCleaned = 1
    /\ providers[1].cleanErr = "nil" /\ providers[1].BytesCleaned = 1
    /\ totalFreed = 1

\* C32: once cleaning has started, if every clean command that was started
\* delivers its result message (the fairness of SpecInteractiveLive), the model
\* eventually reaches Done; a program that was ended by a signal or a quit
\* message takes no result message any more.
C32_CleaningReachesDone == (state = "Cleaning") ~> (state = "Done" \/ ~running)

\* C32 witness: cleaning started and the model reached Done with two results
\* delivered while the program was still running
C32_Witness ==
    /\ state = "Done"
    /\ Len(cleanCalls) = 2
    /\ cleaning = {}
    /\ running
    /\ ~quitSent

\* ---------------------------------------------------------- the clean command
\* executeClean was entered and has returned
executeCleanReturned ==
    /\ cli.pc = "returned"
    /\ ~cli.aborted
    /\ cli.ret.kind # "no available providers"

\* the providers whose Clean returned an error, in the order of the calls
FailedProviders ==
    LET failed == SelectSeq(cli.calls, LAMBDA c : c.err # "nil")
    IN [k \in 1..Len(failed) |-> failed[k].provider]

RECURSIVE SumCleaned(_)
\* the sum of BytesCleaned over the calls of Clean that returned no error
SumCleaned(calls) ==
    IF calls = <<>> THEN 0
    ELSE (IF Head(calls).err = "nil" THEN Head(calls).BytesCleaned ELSE 0) + SumCleaned(Tail(calls))

\* C33 (as stated): when a provider's Clean returns an error, the clean command
\* still cleans every later provider, adds only the successful results to the
\* total and returns an error that names each failed provider.
C33_FailedProviderIsReportedAndRunGoesOn ==
    (executeCleanReturned /\ FailedProviders # <<>>) =>
        /\ Len(cli.calls) = Len(cli.providers)
        /\ cli.totalCleaned = SumCleaned(cli.calls)
        /\ cli.ret.kind = "some providers failed"
        /\ cli.ret.failed = FailedProviders

\* What holds: the same when the loop never finds the context cancelled; a
\* loop that finds it cancelled returns nil, whatever failed before.
C33_ReportedUnlessCancelled ==
    /\ cli.pc \in {"loop", "returned"} => cli.totalCleaned = SumCleaned(cli.calls)
    /\ (executeCleanReturned /\ FailedProviders # <<>> /\ Len(cli.calls) = Len(cli.providers)) =>
          /\ cli.ret.kind = "some providers failed"
          /\ cli.ret.failed = FailedProviders
    /\ (executeCleanReturned /\ Len(cli.calls) < Len(cli.providers)) =>
          /\ cli.cancelled
          /\ cli.ret.kind = "nil"

\* the prompt was shown: there are providers to clean and neither --force nor
\* --dry-run was given
Prompted ==
    /\ cli.pc \in {"loop", "returned"}
    /\ cli.providers # <<>>
    /\ ~cli.force
    /\ ~cli.dryRun

\* the answer as typed: the first line of the input without its line end
Answer ==
    LET line == ReadString(cli.stdin)
    IN IF line # <<>> /\ Last(line) = LF THEN Front(line) ELSE line

\* the command printed "Aborted", cleaned nothing and returned no error
AbortedCleanly ==
    /\ cli.aborted
    /\ cli.pc = "returned"
    /\ cli.calls = <<>>
    /\ cli.ret.kind = "nil"

\* C34 (as stated): without --force and --dry-run no provider is cleaned unless
\* the answer is "y" or "yes"; any other answer aborts cleanly.
C34_OnlyYOrYesCleans ==
    Prompted =>
        IF Answer \in {<<"y">>, <<"y", "e", "s">>} THEN ~cli.aborted ELSE AbortedCleanly

\* the inputs whose first line is y or yes once its letters are lower-cased and
\* the white space around it is removed
YesInputs ==
    {<<"y", LF>>, <<"Y", LF>>, <<"y", "e", "s", LF>>, <<"Y", "e", "S", LF>>, <<" ", "y", " ", LF>>,
     <<"y">>, <<"y", "\r", LF>>, <<"y", LF, "n", LF>>}

\* C34 (amended): without --force and --dry-run no provider's Clean is called
\* unless the first line of the input is y or yes in any letter case and with
\* white space around it ignored; every other input, an empty line and an
\* empty input included, prints "Aborted", cleans nothing and returns no error.
C34_OnlyAYesLineCleans ==
    /\ Prompted => IF cli.stdin \in YesInputs THEN ~cli.aborted ELSE AbortedCleanly
    /\ (cli.pc # "idle" /\ cli.pc # "start" /\ cli.calls # <<>>) =>
          cli.force \/ cli.dryRun \/ cli.stdin \in YesInputs
    /\ (cli.pc # "idle" /\ cli.pc # "start" /\ cli.aborted) => ~cli.force /\ ~cli.dryRun

\* C34 witness: the answer "YeS" confirmed and a provider was cleaned
C34_Witness ==
    /\ Prompted
    /\ cli.stdin = <<"Y", "e", "S", LF>>
    /\ cli.calls # <<>>

\* ------------------------------------------------------------ Trim: the plan
\* C35: the files Trim marks are a prefix of the enumeration sorted by
\* ascending modification time: the enumeration is in that order when the plan
\* is made, the marked entries are its first entries, and no entry that
\* survives the plan is strictly older than a marked one.
C35_MarkedArePrefixOfSorted ==
    Planned =>
        /\ \A i, j \in 1..Len(files) : i < j => files[i].ModTime <= files[j].ModTime
        /\ Len(toDelete) <= Len(files)
        /\ toDelete = SubSeq(files, 1, Len(toDelete))
        /\ \A i \in 1..Len(toDelete) : \A j \in (Len(toDelete) + 1)..Len(files) :
              ~(files[j].ModTime < toDelete[i].ModTime)

\* C35 witness: the age phase marked a file, the size phase marked another, a
\* third survives, and the walkers had appended them in another order
C35_Witness ==
    /\ Planned
    /\ ageMarked # <<>>
    /\ SizeMarked # <<>>
    /\ Len(toDelete) < Len(files)
    /\ \E i, j \in 1..Len(files) : i < j /\ files[i].Path > files[j].Path

\* how many entries of s are of path p
Occurrences(s, p) == Cardinality({i \in 1..Len(s) : s[i].Path = p})

\* no two of the roots are the same directory or one inside the other
DisjointRoots ==
    \A i, j \in 1..Len(roots) :
        i # j => roots[i] # roots[j] /\ roots[i] # "top" /\ roots[j] # "top"

\* C36 (as stated): within one Trim call each file on disk is attempted for
\* deletion at most once and its size enters the arithmetic of the plan at most
\* once, also when the roots overlap or repeat.
C36_EachFileOnce ==
    op = "Trim" =>
        \A p \in DOMAIN disk0 :
            /\ Occurrences(attempted, p) <= 1
            /\ Occurrences(files, p) <= 1
            /\ Occurrences(toDelete, p) <= 1

\* What holds: the same for roots that neither repeat nor lie inside each
\* other; with such roots the plan's remaining size is the size of the files
\* on disk that are not marked.
C36_EachFileOnceForDisjointRoots ==
    (op = "Trim" /\ DisjointRoots) =>
        /\ \A p \in DOMAIN disk0 :
              /\ Occurrences(attempted, p) <= 1
              /\ Occurrences(files, p) <= 1
              /\ Occurrences(toDelete, p) <= 1
        /\ Planned => remainingSize = SizeOn(disk0, DOMAIN disk0 \ PathsOf(toDelete))

\* a real run of Trim has returned without interruption
RealRunReturned ==
    /\ op = "Trim"
    /\ pc = "done"
    /\ ~opts.DryRun
    /\ result.Output.kind # "interrupted"

\* C37: when a real run of Trim returns without interruption, DeletedCount
\* plus the number of deletion-failure warnings (the warnings after those of
\* the scan) is the number of marked files, and FreedBytes is the summed size
\* of exactly the files whose removal succeeded, which are the files gone from
\* disk.
C37_CountsAddUpToThePlan ==
    RealRunReturned =>
        /\ Len(result.Errors) >= Len(warnings)
        /\ result.DeletedCount + (Len(result.Errors) - Len(warnings)) = Len(toDelete)
        /\ result.DeletedCount = Len(removed)
        /\ result.FreedBytes = SizeOn(disk0, Range(removed))
        /\ Range(removed) = DOMAIN disk0 \ DOMAIN disk
        /\ Range(removed) \subseteq PathsOf(toDelete)

\* C37 witness: a real run returned with a removal that succeeded, one that
\* failed and a warning of the scan
C37_Witness ==
    /\ RealRunReturned
    /\ result.DeletedCount >= 1
    /\ Len(result.Errors) - Len(warnings) >= 1
    /\ warnings # <<>>

\* the second of two real runs has made its plan, and the first returned
\* without interruption and without a failed deletion
SecondRunAfterCleanFirst ==
    /\ op = "Trim"
    /\ callNo = 2
    /\ Planned
    /\ prev.err = "nil"
    /\ prev.result.Errors = <<>>

\* C38: Trim run again with the same policy right after an uninterrupted real
\* run in which no deletion failed, the files and the clock unchanged in
\* between, marks no file and deletes nothing.
C38_SecondRunMarksNothing ==
    /\ SecondRunAfterCleanFirst =>
          /\ toDelete = <<>>
          /\ removed = <<>>
          /\ disk = disk0
          /\ result.DeletedCount = 0
          /\ result.FreedBytes = 0
    /\ (op = "Trim" /\ callNo = 2 /\ pc = "done" /\ prev.result.Errors = <<>>) =>
          /\ disk = disk0
          /\ result.DeletedCount = 0
          /\ result.Output.kind \in {"no files found", "deleted files", "interrupted"}

\* C38 witness: the first run removed a file and left another, and the second
\* run enumerated the survivor and returned without marking it
C38_Witness ==
    /\ SecondRunAfterCleanFirst
    /\ pc = "done"
    /\ prev.result.DeletedCount >= 1
    /\ files # <<>>
    /\ toDelete = <<>>
    /\ result.Output = Out("deleted files", 0, <<>>)

\* ------------------------------------------------- the scanner never fails
\* C39: CalculateSize and ListFiles never return a non-nil error: the walk
\* callback returns nil on every path, so no walk returns an error, firstErr
\* stays empty, the scan returns a nil error, Trim never takes its
\* scan-failure return and a provider's size scan never fails.
C39_ScanNeverReturnsAnError ==
    /\ firstErr = "nil"
    /\ scanResult.err \in {"none", "nil"}
    /\ (CalculateSizeReturned \/ ListFilesReturned) => scanResult.err = "nil"
    /\ op \in {"Trim", "SmartClean"} => err \in {"nil", "context canceled"}

\* C39 witness: the scan of a smart clean met a path it could not read and a
\* regular file, returned without error, and Trim went on to its plan
C39_Witness ==
    /\ op = "SmartClean"
    /\ Planned
    /\ \E k \in 1..Len(warnings) : warnings[k].Reason = "permission denied"
    /\ files # <<>>
    /\ firstErr = "nil"
====
